---- MODULE Spec2Model ----
(***************************************************************************)
(* Model of github.com/sourcegraph/run: the output of a spawned process is *)
(* relayed through a buffered pipe to the consumption methods of           *)
(* commandOutput (Stream, StreamLines, Lines, String, Read, Wait), with    *)
(* the LineMap chain applied per line by lineMaps.Pipe and the command's   *)
(* exit error raised from the pipe by waitAndClose.                        *)
(***************************************************************************)
EXTENDS Integers, Sequences, FiniteSets, TLC

(***************************************************************************)
(* Bounds of the model.                                                    *)
(***************************************************************************)
\* longest stdout payload a modelled process writes
MaxLen == 3
\* number of consumption calls a client issues on one handle
MaxCalls == 2
\* bufio.MaxScanTokenSize (64 * 1024), scaled to the payload sizes above
ScanTokenLimit == 3
\* largest buffer a client passes to Read
MaxRead == 2
\* maxBufferSize (128 * 1024; the tests lower it to 1024), scaled to the payload sizes
maxBufferSize == 2

(***************************************************************************)
(* Bytes.                                                                  *)
(***************************************************************************)
NL == "\n"
CR == "\r"
\* the bytes a modelled process writes
Byte == {"a", CR, NL}
\* unicode.IsSpace over the alphabet
IsSpace(b) == b \in {NL, CR, " "}

SeqsUpTo(S, n) == UNION {[1..k -> S] : k \in 0..n}

Min(a, b) == IF a <= b THEN a ELSE b

Take(s, n) == SubSeq(s, 1, Min(n, Len(s)))
Drop(s, n) == SubSeq(s, Min(n, Len(s)) + 1, Len(s))

\* bytes.HasSuffix(s, "\n")
HasSuffixNL(s) == Len(s) > 0 /\ s[Len(s)] = NL

\* bytes.IndexByte(s, '\n'), 0 when absent
IndexNL(s) == IF \E i \in 1..Len(s) : s[i] = NL
              THEN CHOOSE i \in 1..Len(s) : s[i] = NL /\ \A j \in 1..(i-1) : s[j] # NL
              ELSE 0

\* bufio's dropCR: one trailing carriage return is removed
dropCR(s) == IF Len(s) > 0 /\ s[Len(s)] = CR THEN SubSeq(s, 1, Len(s) - 1) ELSE s

\* bytes.TrimSpace
RECURSIVE TrimLeft(_)
TrimLeft(s) == IF Len(s) > 0 /\ IsSpace(s[1]) THEN TrimLeft(Tail(s)) ELSE s
RECURSIVE TrimRight(_)
TrimRight(s) == IF Len(s) > 0 /\ IsSpace(s[Len(s)]) THEN TrimRight(SubSeq(s, 1, Len(s) - 1)) ELSE s
TrimSpace(s) == TrimRight(TrimLeft(s))

\* strings.TrimSuffix(s, "\n")
TrimSuffixNL(s) == IF HasSuffixNL(s) THEN SubSeq(s, 1, Len(s) - 1) ELSE s

(***************************************************************************)
(* Errors.  Every error value is a record of the same shape so that any    *)
(* two can be compared.                                                    *)
(***************************************************************************)
MkErr(k) == [kind |-> k, code |-> 0, stderr |-> <<>>]
NoErr == MkErr("nil")
EOF == MkErr("EOF")
ErrClosedPipe == MkErr("io: read/write on closed pipe")
ErrTooLong == MkErr("bufio.Scanner: token too long")
ErrConsumed == MkErr("output has already been consumed")
ErrMap == MkErr("map error")
ErrDst == MkErr("write error")

\* exit codes of the modelled processes
Codes == {0, 1, 3}

\* cmd.Wait(): nil for exit status 0, otherwise an *exec.ExitError
ExitError(code) == [kind |-> "ExitError", code |-> code, stderr |-> <<>>]
cmdWait(code) == IF code = 0 THEN NoErr ELSE ExitError(code)

\* newError wraps an ExitError with the trimmed copy of stderr; other errors pass
newError(err, stdErr) ==
    IF err = NoErr THEN NoErr
    ELSE IF err.kind = "ExitError"
         THEN [kind |-> "runError", code |-> err.code, stderr |-> TrimSpace(stdErr)]
         ELSE err

\* (*exec.ExitError).String() is the process state, "exit status N"
ExitStatusText == [c \in Codes |-> CASE c = 0 -> "exit status 0"
                                     [] c = 1 -> "exit status 1"
                                     [] c = 3 -> "exit status 3"]

\* (*runError).Error()
ErrorText(e) ==
    IF e.kind = "runError"
    THEN IF Len(e.stderr) = 0 THEN <<ExitStatusText[e.code]>>
         ELSE <<ExitStatusText[e.code], ":", " ">> \o e.stderr
    ELSE <<e.kind>>

\* an ExitCode that takes every error for an ExitCoder
ExitCodeCarried(err) == err.code

\* ExitCode(err): 0 for nil, the carried code for an ExitCoder, 1 otherwise
ExitCode(err) ==
    IF err = NoErr THEN 0
    ELSE IF err.kind = "runError" THEN err.code
    ELSE 1

(***************************************************************************)
(* LineMap stages.  A LineMap is caller code: it may call dst.Write any    *)
(* number of times and returns (n, err).  Each modelled stage is described *)
(* by what it did on one line: whether Write was called, the bytes it      *)
(* wrote, the count and whether it returned an error.                      *)
(***************************************************************************)
StageKinds == {"pass", "upper", "drop", "empty", "skipA", "fail", "nl", "lie", "dup",
               "addA", "failA"}

Upper(line) == [i \in 1..Len(line) |-> IF line[i] = "a" THEN "b" ELSE line[i]]

StageResult(called, wrote, n, failed) ==
    [called |-> called, wrote |-> wrote, n |-> n, err |-> IF failed THEN ErrMap ELSE NoErr]

RunStage(f, line) ==
    CASE f = "pass"  -> StageResult(TRUE, line, Len(line), FALSE)       \* dst.Write(line)
      [] f = "upper" -> StageResult(TRUE, Upper(line), Len(line), FALSE) \* dst.Write(replace(line))
      [] f = "drop"  -> StageResult(FALSE, <<>>, 0, FALSE)              \* return 0, nil
      [] f = "empty" -> StageResult(TRUE, <<>>, 0, FALSE)               \* dst.Write(nil)
      [] f = "skipA" -> IF Len(line) > 0 /\ line[1] = "a"                \* filter out some lines
                        THEN StageResult(FALSE, <<>>, 0, FALSE)
                        ELSE StageResult(TRUE, line, Len(line), FALSE)
      [] f = "fail"  -> StageResult(FALSE, <<>>, 0, TRUE)               \* return 0, err
      [] f = "nl"    -> StageResult(TRUE, line \o <<NL>>, Len(line) + 1, FALSE)
      [] f = "lie"   -> StageResult(TRUE, line, 0, FALSE)               \* wrote, but returned 0
      [] f = "dup"   -> StageResult(TRUE, line \o line, 2 * Len(line), FALSE)
      [] f = "addA"  -> StageResult(TRUE, line \o <<"a">>, Len(line) + 1, FALSE)
      [] f = "failA" -> IF Len(line) > 0 /\ line[1] = "a"                \* fails on some lines
                        THEN StageResult(FALSE, <<>>, 0, TRUE)
                        ELSE StageResult(TRUE, line, Len(line), FALSE)

(***************************************************************************)
(* tracedBuffer.Write: records that Write was called and appends to the    *)
(* shared scratch buffer.                                                  *)
(***************************************************************************)
\* a buffer that cannot tell a stage that wrote from one that did not
tracedBufferAlwaysCalled(buf, r) == [writeCalled |-> TRUE, buf |-> buf \o r.wrote]

tracedBufferWrite(buf, r) == [writeCalled |-> r.called, buf |-> buf \o r.wrote]

(***************************************************************************)
(* The per-line body of lineMaps.Pipe: the stages run in order on the      *)
(* line, each reading what the previous one left in the scratch buffer.    *)
(* Result: the line to deliver, writeCalled, the stage error, the scratch  *)
(* buffer as left behind, and the stage invocations made: the stage, the   *)
(* line handed to it and the scratch contents behind its sink.             *)
(***************************************************************************)
\* a stage loop that takes a stage's error for "nothing written" and goes on
RECURSIVE mapLoopIgnoresErr(_, _, _, _, _, _)
mapLoopIgnoresErr(m, i, line, buf, writeCalled, seen) ==
    IF i > Len(m)
    THEN [line |-> line, writeCalled |-> writeCalled, err |-> NoErr, buf |-> buf, seen |-> seen]
    ELSE LET r  == RunStage(m[i], line)
             tb == tracedBufferWrite(buf, r)
             sn == Append(seen, [stage |-> i, line |-> line, scratch |-> buf])
         IN IF r.n = 0
            THEN [line |-> line, writeCalled |-> TRUE, err |-> NoErr,
                  buf |-> tb.buf, seen |-> sn]
            ELSE mapLoopIgnoresErr(m, i + 1, tb.buf, <<>>, tb.writeCalled, sn)

RECURSIVE mapLoop(_, _, _, _, _, _)
mapLoop(m, i, line, buf, writeCalled, seen) ==
    IF i > Len(m)
    THEN [line |-> line, writeCalled |-> writeCalled, err |-> NoErr, buf |-> buf, seen |-> seen]
    ELSE LET r  == RunStage(m[i], line)
             tb == tracedBufferWrite(buf, r)
             sn == Append(seen, [stage |-> i, line |-> line, scratch |-> buf])
         IN IF r.err # NoErr
            THEN [line |-> line, writeCalled |-> writeCalled, err |-> r.err,
                  buf |-> tb.buf, seen |-> sn]
            ELSE IF r.n = 0
            THEN [line |-> line, writeCalled |-> tb.writeCalled, err |-> NoErr,
                  buf |-> tb.buf, seen |-> sn]
            ELSE mapLoop(m, i + 1, tb.buf, <<>>, tb.writeCalled, sn)

applyMaps(m, line) == mapLoop(m, 1, line, <<>>, TRUE, <<>>)

\* a Pipe that writes the line as the stages left it, without a line ending
lineOutNoNewline(r) == IF r.writeCalled THEN r.line ELSE <<>>

\* a Pipe that writes every line, whether or not the stages wrote
lineOutAlways(r) == IF HasSuffixNL(r.line) THEN <<>> ELSE r.line \o <<NL>>

\* the bytes Pipe hands to dst.Write for one scanned line (none when elided)
lineOut(r) == IF r.writeCalled /\ ~HasSuffixNL(r.line) THEN r.line \o <<NL>> ELSE <<>>

(***************************************************************************)
(* bufio.Scanner with ScanLines over a complete byte slice, as used by     *)
(* lineWriter.Write: the tokens found, and the scanner's error.  A token   *)
(* needs its terminator within the scanner's buffer of limit bytes.        *)
(***************************************************************************)
RECURSIVE scanAll(_, _, _)
scanAll(data, limit, acc) ==
    IF Len(data) = 0 THEN [tokens |-> acc, err |-> NoErr]
    ELSE LET i == IndexNL(Take(data, limit))
         IN IF i > 0
            THEN scanAll(Drop(data, i), limit, Append(acc, dropCR(Take(data, i - 1))))
            ELSE IF Len(data) >= limit
            THEN [tokens |-> acc, err |-> ErrTooLong]
            ELSE [tokens |-> Append(acc, dropCR(data)), err |-> NoErr]

\* a lineWriter that hands every line to the handler twice
lineWriterTwice(b) ==
    scanAll(b, ScanTokenLimit, <<>>).tokens \o scanAll(b, ScanTokenLimit, <<>>).tokens

\* a lineWriter that makes no handler call for an empty line
lineWriterSkipsEmpty(b) ==
    SelectSeq(scanAll(b, ScanTokenLimit, <<>>).tokens, LAMBDA t : Len(t) > 0)

\* lineWriter.Write(b): the handler calls it makes; scanner.Err() is not looked at
lineWriterWrite(b) == scanAll(b, ScanTokenLimit, <<>>).tokens

(***************************************************************************)
(* State.                                                                  *)
(***************************************************************************)
VARIABLES
    cmd,        \* the spawned command: what the process writes, its exit code, attach mode
    mapFuncs,   \* commandOutput.mapFuncs
    proc,       \* the process: running or exited, and the bytes it has yet to write
    osPipe,     \* bytes written by the process and not yet copied by cmd's copy goroutines
    stderrCopy, \* the copy of stderr retained for error creation
    pipe,       \* the nio pipe: buffer, write-half error (werr), read-half error (rerr)
    enq,        \* history: every byte enqueued in the pipe, in order
    closes,     \* history: CloseWithError calls on the write half, with the pipe state seen
    once,       \* commandOutput.waitAndCloseOnce
    waiters,    \* the waitAndClose invocations, one per consumption call
    wacRuns,    \* history: executions of waitAndCloseFunc
    call,       \* the consumption call in progress
    sink,       \* what the call in progress has delivered to its destination
    task,       \* the lineMaps.Pipe invocation
    linesC,     \* Lines' channel of lines
    mapped,     \* commandOutput.mappedData: the pipe of mapped output behind Read
    hist        \* the completed calls with their results

vars == <<cmd, mapFuncs, proc, osPipe, stderrCopy, pipe, enq, closes, once, waiters,
          wacRuns, call, sink, task, linesC, mapped, hist>>

attachCombined == "attachCombined"
attachOnlyStdOut == "attachOnlyStdOut"
attachOnlyStdErr == "attachOnlyStdErr"
AttachModes == {attachCombined, attachOnlyStdOut, attachOnlyStdErr}

\* channel capacity of Lines' linesC
LinesChanCap == 3

Kinds == {"Stream", "StreamLines", "Lines", "String", "Read", "Wait"}

NewPipe == [buf |-> <<>>, werr |-> NoErr, rerr |-> NoErr, created |-> TRUE]
NoTask == [st |-> "idle", dst |-> "none", buf |-> <<>>, rdErr |-> NoErr, err |-> NoErr,
           written |-> 0, pend |-> <<>>, toks |-> <<>>, log |-> <<>>]
NoCall == [id |-> 0, pos |-> 1, kind |-> "none", pc |-> "idle", p |-> 0]
NoSink == [bytes |-> <<>>, lines |-> <<>>, writes |-> 0]

(***************************************************************************)
(* The nio pipe.                                                           *)
(***************************************************************************)
\* (*nio.PipeWriter).Write fails once a half is closed
PipeCanWrite(pp) == pp.werr = NoErr /\ pp.rerr = NoErr

\* the room left in the in-memory part of the buffer
memRoom(pp) == IF Len(pp.buf) >= maxBufferSize THEN 0 ELSE maxBufferSize - Len(pp.buf)

\* a buffer of maxBufferSize bytes in memory and nothing behind it: the excess is cut
PipeWriteMemOnly(pp, b) ==
    IF PipeCanWrite(pp) THEN [pp EXCEPT !.buf = @ \o Take(b, memRoom(pp))] ELSE pp

\* a Write that puts its bytes before those that wait to be read
PipeWritePrepends(pp, b) ==
    IF PipeCanWrite(pp) THEN [pp EXCEPT !.buf = b \o @] ELSE pp

\* (*nio.PipeWriter).Write on the unbounded buffer: maxBufferSize bytes are held in
\* memory, what exceeds them goes to overflow files behind, in order
PipeWrite(pp, b) ==
    IF PipeCanWrite(pp)
    THEN [pp EXCEPT !.buf = @ \o Take(b, memRoom(pp)) \o Drop(b, memRoom(pp))]
    ELSE pp

\* the bytes a write has added to the pipe
Accepted(before, after) == SubSeq(after.buf, Len(before.buf) + 1, Len(after.buf))

\* a close that throws away what the reader has not read yet
PipeCloseDropsBuffer(pp, err) ==
    IF pp.werr = NoErr
    THEN [pp EXCEPT !.werr = IF err = NoErr THEN EOF ELSE err, !.buf = <<>>]
    ELSE pp

\* (*nio.PipeWriter).CloseWithError: the first close decides; nil closes with EOF
PipeCloseWithError(pp, err) ==
    IF pp.werr = NoErr THEN [pp EXCEPT !.werr = IF err = NoErr THEN EOF ELSE err] ELSE pp

\* (*nio.PipeReader).Close
PipeReaderClose(pp) == IF pp.rerr = NoErr THEN [pp EXCEPT !.rerr = ErrClosedPipe] ELSE pp

\* a Read that blocks until one half of the pipe is closed
PipeCanReadAtClose(pp) == pp.rerr # NoErr \/ pp.werr # NoErr

\* (*nio.PipeReader).Read blocks while the buffer is empty and no half is closed
PipeCanRead(pp) == Len(pp.buf) > 0 \/ pp.rerr # NoErr \/ pp.werr # NoErr
\* a Read that returns everything buffered, whatever the length of p
PipeReadWholeBuffer(pp, n) ==
    IF Len(pp.buf) > 0
    THEN [data |-> pp.buf, err |-> NoErr, pipe |-> [pp EXCEPT !.buf = <<>>]]
    ELSE IF pp.rerr # NoErr
    THEN [data |-> <<>>, err |-> ErrClosedPipe, pipe |-> pp]
    ELSE [data |-> <<>>, err |-> pp.werr, pipe |-> pp]

\* a Read that reports the closing error as soon as the write half is closed
PipeReadErrFirst(pp, n) ==
    IF pp.werr # NoErr
    THEN [data |-> <<>>, err |-> pp.werr, pipe |-> pp]
    ELSE IF Len(pp.buf) > 0
    THEN [data |-> Take(pp.buf, n), err |-> NoErr, pipe |-> [pp EXCEPT !.buf = Drop(@, n)]]
    ELSE [data |-> <<>>, err |-> ErrClosedPipe, pipe |-> pp]

\* the result of Read(p) with len(p) = n: buffered bytes first, then the closing error
PipeRead(pp, n) ==
    IF Len(pp.buf) > 0
    THEN [data |-> Take(pp.buf, n), err |-> NoErr, pipe |-> [pp EXCEPT !.buf = Drop(@, n)]]
    ELSE IF pp.rerr # NoErr
    THEN [data |-> <<>>, err |-> ErrClosedPipe, pipe |-> pp]
    ELSE [data |-> <<>>, err |-> pp.werr, pipe |-> pp]

(***************************************************************************)
(* The process and cmd's copy goroutines (os/exec): the process writes to  *)
(* an OS pipe per stream, a goroutine copies each to cmd.Stdout and        *)
(* cmd.Stderr as set by attachOutputAndRun.                                *)
(***************************************************************************)
ProcWriteOut ==
    /\ proc.state = "running" /\ Len(proc.out) > 0
    /\ proc' = [proc EXCEPT !.out = Tail(@)]
    /\ osPipe' = [osPipe EXCEPT !.out = Append(@, Head(proc.out))]
    /\ UNCHANGED <<cmd, mapFuncs, stderrCopy, pipe, enq, closes, once, waiters, wacRuns,
                   call, sink, task, linesC, mapped, hist>>

ProcWriteErr ==
    /\ proc.state = "running" /\ Len(proc.err) > 0
    /\ proc' = [proc EXCEPT !.err = Tail(@)]
    /\ osPipe' = [osPipe EXCEPT !.err = Append(@, Head(proc.err))]
    /\ UNCHANGED <<cmd, mapFuncs, stderrCopy, pipe, enq, closes, once, waiters, wacRuns,
                   call, sink, task, linesC, mapped, hist>>

ProcExit ==
    /\ proc.state = "running" /\ Len(proc.out) = 0 /\ Len(proc.err) = 0
    /\ proc' = [proc EXCEPT !.state = "exited"]
    /\ UNCHANGED <<cmd, mapFuncs, osPipe, stderrCopy, pipe, enq, closes, once, waiters,
                   wacRuns, call, sink, task, linesC, mapped, hist>>

\* a copy into a pipe that holds maxBufferSize bytes and makes the writer wait for room
CopyStdoutWaitsForRoom ==
    /\ Len(osPipe.out) > 0
    /\ Len(pipe.buf) + Len(osPipe.out) <= maxBufferSize
    /\ osPipe' = [osPipe EXCEPT !.out = <<>>]
    /\ IF cmd.attach = attachOnlyStdErr
       THEN UNCHANGED <<pipe, enq>>
       ELSE /\ pipe' = PipeWrite(pipe, osPipe.out)
            /\ enq' = enq \o Accepted(pipe, pipe')
    /\ UNCHANGED <<cmd, mapFuncs, proc, stderrCopy, closes, once, waiters, wacRuns,
                   call, sink, task, linesC, mapped, hist>>

\* cmd.Stdout: outputWriter, or nil (discard) when only stderr is attached
CopyStdout ==
    /\ Len(osPipe.out) > 0
    /\ osPipe' = [osPipe EXCEPT !.out = <<>>]
    /\ IF cmd.attach = attachOnlyStdErr
       THEN UNCHANGED <<pipe, enq>>
       ELSE /\ pipe' = PipeWrite(pipe, osPipe.out)
            /\ enq' = enq \o Accepted(pipe, pipe')
    /\ UNCHANGED <<cmd, mapFuncs, proc, stderrCopy, closes, once, waiters, wacRuns,
                   call, sink, task, linesC, mapped, hist>>

\* cmd.Stderr: stderrCopy, or io.MultiWriter(stderrCopy, outputWriter)
CopyStderr ==
    /\ Len(osPipe.err) > 0
    /\ osPipe' = [osPipe EXCEPT !.err = <<>>]
    /\ stderrCopy' = stderrCopy \o osPipe.err
    /\ IF cmd.attach = attachOnlyStdOut
       THEN UNCHANGED <<pipe, enq>>
       ELSE /\ pipe' = PipeWrite(pipe, osPipe.err)
            /\ enq' = enq \o Accepted(pipe, pipe')
    /\ UNCHANGED <<cmd, mapFuncs, proc, closes, once, waiters, wacRuns,
                   call, sink, task, linesC, mapped, hist>>

\* a wait that returns at process exit without waiting for the copy goroutines
cmdWaitReturnsAtExit == proc.state = "exited"

\* cmd.Wait returns once the process has exited and the copy goroutines are done
cmdWaitReturns == proc.state = "exited" /\ Len(osPipe.out) = 0 /\ Len(osPipe.err) = 0

(***************************************************************************)
(* waitAndClose: sync.Once around waitAndCloseFunc.                        *)
(***************************************************************************)
\* a Once that lets every invocation run f
onceAlwaysRuns == once # "running"

\* o.waitAndCloseOnce.Do(f) by an invocation that finds the Once untouched: it runs f
onceMayRun == once = "idle"

WaitAndCloseBegin(w) ==
    /\ waiters[w].pc = "start"
    /\ onceMayRun
    /\ once' = "running"
    /\ waiters' = [waiters EXCEPT ![w].pc = "cmdWait", ![w].ran = TRUE]
    /\ wacRuns' = wacRuns + 1
    /\ UNCHANGED <<cmd, mapFuncs, proc, osPipe, stderrCopy, pipe, enq, closes,
                   call, sink, task, linesC, mapped, hist>>

\* err := newError(cmd.Wait(), stderrCopy)
WaitAndCloseWait(w) ==
    /\ waiters[w].pc = "cmdWait"
    /\ cmdWaitReturns
    /\ LET status == cmdWait(cmd.code)
       IN /\ waiters' = [waiters EXCEPT ![w].pc = "close", ![w].err = newError(status, stderrCopy)]
          /\ stderrCopy' = IF status # NoErr THEN <<>> ELSE stderrCopy
    /\ UNCHANGED <<cmd, mapFuncs, proc, osPipe, pipe, enq, closes, once, wacRuns,
                   call, sink, task, linesC, mapped, hist>>

\* outputWriter.CloseWithError(err)
WaitAndCloseClose(w) ==
    /\ waiters[w].pc = "close"
    /\ pipe' = PipeCloseWithError(pipe, waiters[w].err)
    /\ closes' = Append(closes, [exited |-> proc.state = "exited", waited |-> cmdWaitReturns,
                                 pending |-> Len(proc.out) + Len(proc.err)
                                             + Len(osPipe.out) + Len(osPipe.err)])
    /\ waiters' = [waiters EXCEPT ![w].pc = "return"]
    /\ UNCHANGED <<cmd, mapFuncs, proc, osPipe, stderrCopy, enq, once, wacRuns,
                   call, sink, task, linesC, mapped, hist>>

\* waitAndCloseFunc returns, and with it Once.Do and waitAndClose
WaitAndCloseReturn(w) ==
    /\ waiters[w].pc = "return"
    /\ once' = "done"
    /\ waiters' = [waiters EXCEPT ![w].pc = "done"]
    /\ UNCHANGED <<cmd, mapFuncs, proc, osPipe, stderrCopy, pipe, enq, closes, wacRuns,
                   call, sink, task, linesC, mapped, hist>>

\* any other invocation waits for the running one, then returns the default error
WaitAndCloseSkip(w) ==
    /\ waiters[w].pc = "start"
    /\ once = "done"
    /\ waiters' = [waiters EXCEPT ![w].pc = "done", ![w].err = ErrConsumed]
    /\ UNCHANGED <<cmd, mapFuncs, proc, osPipe, stderrCopy, pipe, enq, closes, once, wacRuns,
                   call, sink, task, linesC, mapped, hist>>

(***************************************************************************)
(* lineMaps.Pipe over o.reader: a bufio.Scanner with ScanLines, the map    *)
(* chain on each line, and the write of the line to dst.                   *)
(***************************************************************************)
\* the scanner holds a complete token: a terminated line, or the rest at end of input
scanHasToken(t) == IndexNL(t.buf) > 0 \/ (t.rdErr # NoErr /\ Len(t.buf) > 0)
scanToken(t) == IF IndexNL(t.buf) > 0 THEN dropCR(Take(t.buf, IndexNL(t.buf) - 1)) ELSE dropCR(t.buf)
scanRest(t) == IF IndexNL(t.buf) > 0 THEN Drop(t.buf, IndexNL(t.buf)) ELSE <<>>

\* scanner.Err(): io.EOF is not an error
scannerErr(e) == IF e = EOF THEN NoErr ELSE e

\* a Pipe whose close() runs on the return at the end of the input only
PipeReturnLeavesOpen(t, err) ==
    /\ task' = [t EXCEPT !.err = err, !.st = IF t.dst = "chan" THEN "errc" ELSE "done"]
    /\ linesC' = IF t.dst = "chan" /\ err = NoErr THEN [linesC EXCEPT !.closed = TRUE] ELSE linesC
    /\ mapped' = IF t.dst = "mapped" THEN PipeCloseWithError(mapped, err) ELSE mapped

\* Pipe returns err: the deferred close() runs, and the caller of Pipe goes on
\*   Lines:  close(linesC), then errC <- err
\*   Read:   writer.CloseWithError(err)
PipeReturn(t, err) ==
    /\ task' = [t EXCEPT !.err = err, !.st = IF t.dst = "chan" THEN "errc" ELSE "done"]
    /\ linesC' = IF t.dst = "chan" THEN [linesC EXCEPT !.closed = TRUE] ELSE linesC
    /\ mapped' = IF t.dst = "mapped" THEN PipeCloseWithError(mapped, err) ELSE mapped

\* dst.Write(b) for the destination of this Pipe
PipeDstWrite(t, b) ==
    /\ sink' = CASE t.dst = "raw" -> [sink EXCEPT !.bytes = @ \o b,
                                                  !.writes = @ + IF Len(b) > 0 THEN 1 ELSE 0]
                 [] t.dst = "cb"  -> [sink EXCEPT !.lines = @ \o lineWriterWrite(b)]
                 [] OTHER -> sink
    /\ mapped' = IF t.dst = "mapped" THEN PipeWrite(mapped, b) ELSE mapped
    /\ task' = IF t.dst = "chan" /\ Len(lineWriterWrite(b)) > 0
               THEN [t EXCEPT !.pend = lineWriterWrite(b), !.st = "send"]
               ELSE t
    /\ UNCHANGED linesC

\* the caller's writer of this Stream returns an error on its call.p-th Write
DstFails == call.kind = "Stream" /\ call.p > 0 /\ sink.writes + 1 = call.p

\* one iteration of the scan loop on a token
PipeScanToken ==
    /\ task.st = "run" /\ scanHasToken(task)
    /\ LET r == applyMaps(mapFuncs, scanToken(task))
           t == [task EXCEPT !.buf = scanRest(task), !.toks = Append(@, scanToken(task)),
                             !.log = Append(@, r.seen)]
       IN IF r.err # NoErr
          THEN PipeReturn(t, r.err) /\ UNCHANGED sink
          ELSE IF t.dst = "raw" /\ Len(lineOut(r)) > 0 /\ DstFails
          THEN PipeReturn(t, ErrDst) /\ sink' = [sink EXCEPT !.writes = @ + 1]
          ELSE PipeDstWrite([t EXCEPT !.written = @ + Len(lineOut(r))], lineOut(r))
    /\ UNCHANGED <<cmd, mapFuncs, proc, osPipe, stderrCopy, pipe, enq, closes, once, waiters,
                   wacRuns, call, hist>>

\* the scanner needs more data: a Read into the free part of its buffer
PipeScanRead ==
    /\ task.st = "run" /\ ~scanHasToken(task) /\ task.rdErr = NoErr
    /\ Len(task.buf) < ScanTokenLimit
    /\ PipeCanRead(pipe)
    /\ LET r == PipeRead(pipe, ScanTokenLimit - Len(task.buf))
       IN /\ pipe' = r.pipe
          /\ task' = [task EXCEPT !.buf = @ \o r.data, !.rdErr = r.err]
    /\ UNCHANGED <<cmd, mapFuncs, proc, osPipe, stderrCopy, enq, closes, once, waiters,
                   wacRuns, call, sink, linesC, mapped, hist>>

\* the buffer is full and holds no terminator: bufio.ErrTooLong
PipeScanTooLong ==
    /\ task.st = "run" /\ ~scanHasToken(task) /\ task.rdErr = NoErr
    /\ Len(task.buf) >= ScanTokenLimit
    /\ PipeReturn(task, ErrTooLong)
    /\ UNCHANGED <<cmd, mapFuncs, proc, osPipe, stderrCopy, pipe, enq, closes, once, waiters,
                   wacRuns, call, sink, hist>>

\* the reader returned an error and nothing is left: return scanner.Err()
PipeScanEnd ==
    /\ task.st = "run" /\ ~scanHasToken(task) /\ task.rdErr # NoErr
    /\ PipeReturn(task, scannerErr(task.rdErr))
    /\ UNCHANGED <<cmd, mapFuncs, proc, osPipe, stderrCopy, pipe, enq, closes, once, waiters,
                   wacRuns, call, sink, hist>>

\* Lines' handler: linesC <- string(line), blocking while the channel is full
LinesSend ==
    /\ task.st = "send"
    /\ Len(linesC.buf) < LinesChanCap
    /\ linesC' = [linesC EXCEPT !.buf = Append(@, Head(task.pend))]
    /\ task' = [task EXCEPT !.pend = Tail(@), !.st = IF Len(task.pend) = 1 THEN "run" ELSE "send"]
    /\ UNCHANGED <<cmd, mapFuncs, proc, osPipe, stderrCopy, pipe, enq, closes, once, waiters,
                   wacRuns, call, sink, mapped, hist>>

(***************************************************************************)
(* The client: it registers its maps, then issues consumption calls one    *)
(* after the other.  Every call starts a waitAndClose invocation (in a     *)
(* goroutine, or inline for Wait).                                         *)
(***************************************************************************)
\* a Map that puts the stage in front of the chain
MapPrepends ==
    /\ call.id = 0 /\ Len(mapFuncs) < Len(cmd.maps)
    /\ mapFuncs' = <<cmd.maps[Len(mapFuncs) + 1]>> \o mapFuncs
    /\ UNCHANGED <<cmd, proc, osPipe, stderrCopy, pipe, enq, closes, once, waiters, wacRuns,
                   call, sink, task, linesC, mapped, hist>>

\* commandOutput.Map
Map ==
    /\ call.id = 0 /\ Len(mapFuncs) < Len(cmd.maps)
    /\ mapFuncs' = Append(mapFuncs, cmd.maps[Len(mapFuncs) + 1])
    /\ UNCHANGED <<cmd, proc, osPipe, stderrCopy, pipe, enq, closes, once, waiters, wacRuns,
                   call, sink, task, linesC, mapped, hist>>

\* the state a call of kind k starts in
firstPc(k) ==
    CASE k \in {"Stream", "String"} -> IF Len(mapFuncs) = 0 THEN "copy" ELSE "pipe"
      [] k = "StreamLines" -> "pipe"
      [] k = "Lines" -> "recv"
      [] k = "Read" -> IF Len(mapFuncs) = 0 THEN "read" ELSE "readMapped"
      [] k = "Wait" -> "wait"

\* a Read that sets up a new mappedData pipe and task on every call
pipeDstFreshPipe(k) ==
    CASE k \in {"Stream", "String"} -> IF Len(mapFuncs) = 0 THEN "none" ELSE "raw"
      [] k = "StreamLines" -> "cb"
      [] k = "Lines" -> "chan"
      [] k = "Read" -> IF Len(mapFuncs) = 0 THEN "none" ELSE "mapped"
      [] k = "Wait" -> "none"

\* the destination of the Pipe a call of kind k starts, "none" if it starts none
pipeDst(k) ==
    CASE k \in {"Stream", "String"} -> IF Len(mapFuncs) = 0 THEN "none" ELSE "raw"
      [] k = "StreamLines" -> "cb"
      [] k = "Lines" -> "chan"
      [] k = "Read" -> IF Len(mapFuncs) = 0 \/ mapped.created THEN "none" ELSE "mapped"
      [] k = "Wait" -> "none"

\* the next call of the client's script; a Read marked "all" is repeated until it
\* returns an error, as io.ReadAll does
StartCall ==
    /\ call.pc = "idle" /\ call.pos <= Len(cmd.script)
    /\ mapFuncs = cmd.maps
    /\ LET k == cmd.script[call.pos].kind
           n == cmd.script[call.pos].p
       IN \* one reader at a time on o.reader
          /\ (pipeDst(k) # "none" \/ firstPc(k) \in {"copy", "read"})
                => task.st \in {"idle", "done"}
          /\ call' = [id |-> call.id + 1, pos |-> call.pos, kind |-> k, pc |-> firstPc(k), p |-> n]
          /\ waiters' = Append(waiters, [pc |-> "start", err |-> NoErr, ran |-> FALSE,
                                          early |-> once # "done"])
          /\ sink' = NoSink
          /\ task' = IF pipeDst(k) # "none"
                     THEN [NoTask EXCEPT !.st = "run", !.dst = pipeDst(k)] ELSE task
          /\ linesC' = IF k = "Lines" THEN [buf |-> <<>>, closed |-> FALSE] ELSE linesC
          /\ mapped' = IF pipeDst(k) = "mapped" THEN NewPipe ELSE mapped
    /\ UNCHANGED <<cmd, mapFuncs, proc, osPipe, stderrCopy, pipe, enq, closes, once, wacRuns, hist>>

\* the call returns: its results are recorded
Return(err, data) ==
    /\ hist' = Append(hist, [id |-> call.id, kind |-> call.kind, err |-> err, bytes |-> data,
                             lines |-> sink.lines, p |-> call.p,
                             str |-> IF call.kind # "String" THEN <<>>
                                     ELSE IF err # NoErr THEN data ELSE TrimSuffixNL(data)])
    /\ call' = [call EXCEPT !.pc = "idle",
                             !.pos = IF cmd.script[call.pos].all /\ err = NoErr THEN @ ELSE @ + 1]

\* io.Copy(dst, o.reader): read, write what was read, stop at the reader's error
CopyStep ==
    /\ call.pc = "copy" /\ PipeCanRead(pipe)
    /\ LET r == PipeRead(pipe, Len(pipe.buf))
       IN /\ pipe' = r.pipe
          /\ IF r.err # NoErr
             THEN Return(scannerErr(r.err), sink.bytes) /\ UNCHANGED sink
             ELSE IF DstFails
             THEN Return(ErrDst, sink.bytes) /\ sink' = [sink EXCEPT !.writes = @ + 1]
             ELSE /\ sink' = [sink EXCEPT !.bytes = @ \o r.data, !.writes = @ + 1]
                  /\ UNCHANGED <<call, hist>>
    /\ UNCHANGED <<cmd, mapFuncs, proc, osPipe, stderrCopy, enq, closes, once, waiters, wacRuns,
                   task, linesC, mapped>>

\* Stream, StreamLines, String with the Pipe in the caller's goroutine
PipeCallReturn ==
    /\ call.pc = "pipe" /\ task.st = "done"
    /\ Return(task.err, sink.bytes)
    /\ UNCHANGED <<cmd, mapFuncs, proc, osPipe, stderrCopy, pipe, enq, closes, once, waiters,
                   wacRuns, sink, task, linesC, mapped>>

\* Lines: for line := range linesC { lines = append(lines, line) }
LinesRecv ==
    /\ call.pc = "recv" /\ Len(linesC.buf) > 0
    /\ sink' = [sink EXCEPT !.lines = Append(@, Head(linesC.buf))]
    /\ linesC' = [linesC EXCEPT !.buf = Tail(@)]
    /\ UNCHANGED <<cmd, mapFuncs, proc, osPipe, stderrCopy, pipe, enq, closes, once, waiters,
                   wacRuns, call, task, mapped, hist>>

\* Lines: the channel is closed and drained; return lines, <-errC
LinesReturn ==
    /\ call.pc = "recv" /\ Len(linesC.buf) = 0 /\ linesC.closed
    /\ task.st = "errc"
    /\ task' = [task EXCEPT !.st = "done"]
    /\ Return(task.err, sink.bytes)
    /\ UNCHANGED <<cmd, mapFuncs, proc, osPipe, stderrCopy, pipe, enq, closes, once, waiters,
                   wacRuns, sink, linesC, mapped>>

\* Read without maps: o.reader.Read(p)
ReadStep ==
    /\ call.pc = "read" /\ PipeCanRead(pipe)
    /\ LET r == PipeRead(pipe, call.p)
       IN pipe' = r.pipe /\ Return(r.err, r.data)
    /\ UNCHANGED <<cmd, mapFuncs, proc, osPipe, stderrCopy, enq, closes, once, waiters, wacRuns,
                   sink, task, linesC, mapped>>

\* Read with maps: o.mappedData.Read(p)
ReadMappedStep ==
    /\ call.pc = "readMapped" /\ PipeCanRead(mapped)
    /\ LET r == PipeRead(mapped, call.p)
       IN mapped' = [r.pipe EXCEPT !.created = TRUE] /\ Return(r.err, r.data)
    /\ UNCHANGED <<cmd, mapFuncs, proc, osPipe, stderrCopy, pipe, enq, closes, once, waiters,
                   wacRuns, sink, task, linesC>>

\* Wait: err := o.waitAndClose(); o.reader.Close(); return err
WaitReturn ==
    /\ call.pc = "wait" /\ waiters[call.id].pc = "done"
    /\ pipe' = PipeReaderClose(pipe)
    /\ Return(waiters[call.id].err, <<>>)
    /\ UNCHANGED <<cmd, mapFuncs, proc, osPipe, stderrCopy, enq, closes, once, waiters, wacRuns,
                   sink, task, linesC, mapped>>

(***************************************************************************)
(* Specification.                                                          *)
(***************************************************************************)
\* a consumption call of a client's script: the method, and len(p) for Read
CallOf(k) == [kind |-> k, p |-> 0, all |-> FALSE]
ReadOf(n) == [kind |-> "Read", p |-> n, all |-> FALSE]
ReadAllOf(n) == [kind |-> "Read", p |-> n, all |-> TRUE]
\* a Stream into a writer that returns an error on its n-th Write
StreamFailingAt(n) == [kind |-> "Stream", p |-> n, all |-> FALSE]

InitWith(c) ==
    /\ cmd = c
    /\ mapFuncs = <<>>
    /\ proc = [state |-> "running", out |-> c.out, err |-> c.err]
    /\ osPipe = [out |-> <<>>, err |-> <<>>]
    /\ stderrCopy = <<>>
    /\ pipe = NewPipe
    /\ enq = <<>>
    /\ closes = <<>>
    /\ once = "idle"
    /\ waiters = <<>>
    /\ wacRuns = 0
    /\ call = NoCall
    /\ sink = NoSink
    /\ task = NoTask
    /\ linesC = [buf |-> <<>>, closed |-> FALSE]
    /\ mapped = [NewPipe EXCEPT !.created = FALSE]
    /\ hist = <<>>

Process == ProcWriteOut \/ ProcWriteErr \/ ProcExit \/ CopyStdout \/ CopyStderr

Waiter ==
    \/ \E w \in DOMAIN waiters : WaitAndCloseBegin(w)
    \/ \E w \in DOMAIN waiters : WaitAndCloseWait(w)
    \/ \E w \in DOMAIN waiters : WaitAndCloseClose(w)
    \/ \E w \in DOMAIN waiters : WaitAndCloseReturn(w)
    \/ \E w \in DOMAIN waiters : WaitAndCloseSkip(w)

PipeTask == PipeScanToken \/ PipeScanRead \/ PipeScanTooLong \/ PipeScanEnd \/ LinesSend

Client ==
    \/ Map
    \/ StartCall
    \/ CopyStep \/ PipeCallReturn \/ LinesRecv \/ LinesReturn
    \/ ReadStep \/ ReadMappedStep \/ WaitReturn

Next == Process \/ Waiter \/ PipeTask \/ Client

(***************************************************************************)
(* The commands and clients of the specifications.                         *)
(***************************************************************************)
\* a line as long as the scanner's buffer, with no terminator
LongLine == [i \in 1..ScanTokenLimit |-> "a"]

\* one consumption call per handle, in every mode
SingleCalls == {<<CallOf(k)>> : k \in Kinds \ {"Read"}}
               \cup {<<ReadAllOf(n)>> : n \in 1..MaxRead}

\* up to MaxCalls consumption calls, one after the other
CallSeqs == SeqsUpTo({CallOf(k) : k \in Kinds \ {"Read"}} \cup {ReadOf(1)}, MaxCalls)

\* clients that issue several calls on one handle
CallCmds == [out : {<<>>, <<"a", NL>>, LongLine}, err : {<<>>, <<"a">>}, code : {0, 3},
             attach : {attachOnlyStdOut}, maps : {<<>>, <<"pass">>}, script : CallSeqs]

\* every attach mode
AttachCmds == [out : {<<"a", NL>>}, err : {<<>>, <<"a", NL>>}, code : {0, 3},
               attach : AttachModes, maps : {<<>>, <<"pass">>}, script : SingleCalls]

Init == \E c \in CallCmds \cup AttachCmds : InitWith(c)

\* several calls on one handle, and every attach mode
Spec == Init /\ [][Next]_vars

\* how a process ends: its exit code and what it has written to stderr
Outcomes == {[code |-> 0, err |-> <<>>], [code |-> 3, err |-> <<"a", NL>>]}

\* every payload, outcome and mode, without and with maps
ModeCmds == {[out |-> o, err |-> x.err, code |-> x.code, attach |-> attachOnlyStdOut,
              maps |-> m, script |-> sc] :
                o \in SeqsUpTo({"a", NL}, MaxLen), x \in Outcomes,
                m \in {<<>>, <<"pass">>, <<"fail">>}, sc \in SingleCalls}

\* line-oriented consumption of every payload, carriage returns included
LineCmds == {[out |-> o, err |-> <<>>, code |-> 0, attach |-> attachOnlyStdOut,
              maps |-> m, script |-> <<CallOf(k)>>] :
                o \in SeqsUpTo(Byte, MaxLen),
                m \in {<<>>, <<"pass">>, <<"upper">>, <<"skipA">>, <<"drop">>},
                k \in {"Stream", "StreamLines", "Lines"}}

InitModes == \E c \in ModeCmds \cup LineCmds : InitWith(c)

\* one consumption call per handle, over every payload
SpecModes == InitModes /\ [][Next]_vars

\* payloads up to LargeLen bytes, more than the in-memory buffer holds
LargeLen == maxBufferSize + 2
LargeCmds == {[out |-> o, err |-> <<>>, code |-> 0, attach |-> attachOnlyStdOut,
               maps |-> <<>>, script |-> <<CallOf("Stream")>>] :
                 o \in SeqsUpTo({"a", NL}, LargeLen)}

\* every mode on a short payload and on a line that does not fit the scanner
ShortCmds == {[out |-> o, err |-> <<"a", NL>>, code |-> 3, attach |-> attachOnlyStdOut,
               maps |-> m, script |-> sc] :
                 o \in {<<"a", NL>>, LongLine}, m \in {<<>>, <<"pass">>}, sc \in SingleCalls}

InitLarge == \E c \in LargeCmds \cup ShortCmds : InitWith(c)

\* large payloads; the process, the copy goroutines and the client's goroutines are
\* scheduled whenever they can run
SpecLarge == InitLarge /\ [][Next]_vars /\ WF_vars(Next)

\* chains with a stage that filters, writes nothing, writes a terminator, changes the
\* line, or fails on some lines
FilterChains == {<<"skipA">>, <<"drop">>}
EmptyChains == {<<"empty">>, <<"pass", "empty">>, <<"empty", "pass">>}
OrderChains == {<<"addA", "upper">>, <<"upper", "addA">>}
FailChains == {<<"failA">>, <<"failA", "pass">>, <<"pass", "failA">>}
Chains == FilterChains \cup EmptyChains \cup OrderChains \cup FailChains \cup {<<"nl">>}

\* every chain on every payload of a cleanly exiting process
ChainCmds == {[out |-> o, err |-> <<>>, code |-> 0, attach |-> attachOnlyStdOut,
               maps |-> m, script |-> sc] :
                 o \in SeqsUpTo({"a", NL}, MaxLen), m \in Chains,
                 sc \in {<<CallOf("Stream")>>, <<CallOf("StreamLines")>>, <<CallOf("Lines")>>}}

\* a failing stage, or a failing destination writer, on a process that exits either way
FailCmds == {[out |-> o, err |-> x.err, code |-> x.code, attach |-> attachOnlyStdOut,
              maps |-> m, script |-> <<CallOf(k)>>] :
                o \in SeqsUpTo({"a", NL}, MaxLen), x \in Outcomes \ {[code |-> 0, err |-> <<>>]},
                m \in FailChains, k \in {"Stream", "StreamLines", "Lines"}}
DstCmds == {[out |-> o, err |-> x.err, code |-> x.code, attach |-> attachOnlyStdOut,
             maps |-> m, script |-> <<StreamFailingAt(n)>>] :
               o \in SeqsUpTo({"a", NL}, MaxLen), x \in Outcomes,
               m \in {<<>>, <<"pass">>}, n \in 1..2}

\* a filtering stage behind Read
FilterReadCmds == {[out |-> o, err |-> <<>>, code |-> 0, attach |-> attachOnlyStdOut,
                    maps |-> m, script |-> <<ReadAllOf(1)>>] :
                      o \in SeqsUpTo({"a", NL}, MaxLen), m \in FilterChains}

InitChains ==
    \E c \in ChainCmds \cup FailCmds \cup DstCmds \cup FilterReadCmds \cup ShortCmds : InitWith(c)

\* one consumption call per handle, through every kind of chain
SpecChains == InitChains /\ [][Next]_vars

\* Reads of varying buffer sizes to the end of the output, and one Read after the end
ReadScripts == {<<ReadOf(n[1]), ReadAllOf(n[2]), ReadOf(1)>> : n \in {<<1, 1>>, <<1, 2>>, <<2, 1>>}}
ReadCmds ==
    {[out |-> o, err |-> <<>>, code |-> 0, attach |-> attachOnlyStdOut,
      maps |-> m, script |-> sc] :
        o \in SeqsUpTo({"a", NL}, MaxLen), m \in {<<>>, <<"upper">>, <<"skipA">>},
        sc \in ReadScripts}
    \cup
    {[out |-> o, err |-> <<"a", NL>>, code |-> 3, attach |-> attachOnlyStdOut,
      maps |-> m, script |-> <<ReadOf(2), ReadAllOf(1), ReadOf(1)>>] :
        o \in SeqsUpTo({"a", NL}, MaxLen), m \in {<<>>, <<"pass">>}}

InitRead == \E c \in ReadCmds \cup ShortCmds : InitWith(c)

\* the handle read as an io.Reader
SpecRead == InitRead /\ [][Next]_vars

\* more lines than the channel of Lines holds
ManyLines == [i \in 1..(LinesChanCap + 1) |-> NL]

\* Lines over more lines than its channel holds, to the end of the output, to the
\* error of the process and to the error of a stage
LinesCmds == {[out |-> ManyLines, err |-> x.err, code |-> x.code, attach |-> attachOnlyStdOut,
               maps |-> m, script |-> <<CallOf("Lines")>>] :
                 x \in Outcomes, m \in {<<>>, <<"pass">>}}
             \cup
             {[out |-> ManyLines \o <<"a", NL>>, err |-> <<>>, code |-> 0,
               attach |-> attachOnlyStdOut, maps |-> <<"failA">>,
               script |-> <<CallOf("Lines")>>]}

InitLines == \E c \in LinesCmds \cup ShortCmds : InitWith(c)

\* Lines and its scanning goroutine, both scheduled whenever they can run
SpecLines == InitLines /\ [][Next]_vars /\ WF_vars(Next)

\* a process that writes to both streams, in every attach mode, consumed by every
\* method
OrderCmds == [out : {<<"a", NL>>}, err : {<<"b", NL>>}, code : {0, 3},
              attach : AttachModes, maps : {<<>>, <<"pass">>}, script : SingleCalls]

InitOrder == \E c \in OrderCmds \cup ShortCmds : InitWith(c)

\* both streams of a process through every attach mode and consumption method
SpecOrder == InitOrder /\ [][Next]_vars

\* lines up to the size of the scanner's buffer and beyond it, through stages that
\* leave the line as long as it is and stages that make it longer
LongCmds == {[out |-> o, err |-> <<>>, code |-> 0, attach |-> attachOnlyStdOut,
              maps |-> m, script |-> <<CallOf(k)>>] :
                o \in {<<"a", NL>>, Take(LongLine, ScanTokenLimit - 1) \o <<NL>>,
                       LongLine, LongLine \o <<NL>>},
                m \in {<<>>, <<"pass">>, <<"dup">>, <<"addA">>},
                k \in {"Lines", "StreamLines", "Stream"}}

InitLong == \E c \in LongCmds \cup ShortCmds : InitWith(c)

\* line-oriented consumption of long lines
SpecLong == InitLong /\ [][Next]_vars

\* more output than the buffer holds in memory, with no call that reads it or with
\* a call that gives up at the first line
LargeOut == [i \in 1..LargeLen |-> IF i % 2 = 1 THEN "a" ELSE NL]
UnreadCmds == {[out |-> LargeOut, err |-> x.err, code |-> x.code, attach |-> attachOnlyStdOut,
                maps |-> <<>>, script |-> sc] :
                 x \in Outcomes, sc \in {<<CallOf("Wait")>>, <<StreamFailingAt(1)>>}}
              \cup
              {[out |-> LargeOut, err |-> x.err, code |-> x.code, attach |-> attachOnlyStdOut,
                maps |-> <<"failA">>, script |-> <<CallOf(k)>>] :
                 x \in Outcomes, k \in {"Stream", "Lines"}}

InitUnread == \E c \in UnreadCmds \cup ShortCmds : InitWith(c)

\* output that nothing reads; everything that can run is scheduled
SpecUnread == InitUnread /\ [][Next]_vars /\ WF_vars(Next)

\* a process that prints lines one after the other, as the loop of the poll example
\* does, consumed by one Stream or StreamLines
LiveOut == <<"a", NL, "a", NL>>
LiveCmds == [out : {LiveOut}, err : {<<>>}, code : {0}, attach : {attachOnlyStdOut},
             maps : {<<>>, <<"pass">>},
             script : {<<CallOf("Stream")>>, <<CallOf("StreamLines")>>}]

InitLive == \E c \in LiveCmds \cup ShortCmds : InitWith(c)

\* the goroutines of this package and of os/exec and the caller are scheduled; the
\* process may pause for any time between two writes and before it exits
Library == CopyStdout \/ CopyStderr \/ Waiter \/ PipeTask \/ Client
SpecLive == InitLive /\ [][Next]_vars /\ WF_vars(Library)

(***************************************************************************)
(* Cancellation of the context given to exec.CommandContext: os/exec kills *)
(* the process when the context is done while the process runs.            *)
(***************************************************************************)
\* (*os.ProcessState).ExitCode() of a process terminated by a signal
Killed == -1

\* a kill after which the process is reported to have exited with status 0
CancelExitsCleanly ==
    /\ cmd.ctx = "live"
    /\ IF proc.state = "running"
       THEN /\ cmd' = [cmd EXCEPT !.ctx = "killed", !.code = 0]
            /\ proc' = [state |-> "exited", out |-> <<>>, err |-> <<>>]
       ELSE /\ cmd' = [cmd EXCEPT !.ctx = "cancelled"]
            /\ UNCHANGED proc
    /\ UNCHANGED <<mapFuncs, osPipe, stderrCopy, pipe, enq, closes, once, waiters,
                   wacRuns, call, sink, task, linesC, mapped, hist>>

\* the context is cancelled: a running process is killed, writes nothing more, and
\* its exit is that of a signalled process; a process that has exited is left alone
Cancel ==
    /\ cmd.ctx = "live"
    /\ IF proc.state = "running"
       THEN /\ cmd' = [cmd EXCEPT !.ctx = "killed", !.code = Killed]
            /\ proc' = [state |-> "exited", out |-> <<>>, err |-> <<>>]
       ELSE /\ cmd' = [cmd EXCEPT !.ctx = "cancelled"]
            /\ UNCHANGED proc
    /\ UNCHANGED <<mapFuncs, osPipe, stderrCopy, pipe, enq, closes, once, waiters,
                   wacRuns, call, sink, task, linesC, mapped, hist>>

\* a command started with a context that is not done
WithContext(c) == c @@ [ctx |-> "live"]

\* a process that would exit cleanly, consumed by every method
CancelCmds == {[out |-> <<"a", NL, "a">>, err |-> <<>>, code |-> 0,
                attach |-> attachOnlyStdOut, maps |-> m, script |-> sc] :
                 m \in {<<>>, <<"pass">>}, sc \in SingleCalls}

\* a line that does not fit the scanner's buffer, from a process that would fail
LongLineCmd == [out |-> LongLine, err |-> <<"b", NL>>, code |-> 3, attach |-> attachOnlyStdOut,
                maps |-> <<"pass">>, script |-> <<CallOf("Stream")>>]

InitCancel == \E c \in CancelCmds \cup {LongLineCmd} : InitWith(WithContext(c))

NextCancel == Cancel \/ Next

\* commands whose context may be cancelled at any moment; everything that can run
\* is scheduled
SpecCancel == InitCancel /\ [][NextCancel]_vars /\ WF_vars(NextCancel)

(***************************************************************************)
(* Command: built by Cmd, configured by its methods, started by Run.  In   *)
(* the specification of commands the record cmd holds the Command (args,   *)
(* environ, dir, stdin, attach, buildError), the calls made on it, the     *)
(* Output that Run has returned, and the client that uses that Output.     *)
(***************************************************************************)
\* configuration calls made on a Command before Run
MaxBuild == 3

Quote == "\""

\* shell.Split: the words of the joined parts; not ok when a quote is left open
Split(parts) == [args |-> SelectSeq(parts, LAMBDA w : w # Quote),
                 ok |-> Cardinality({i \in DOMAIN parts : parts[i] = Quote}) % 2 = 0]

ErrUnclosedQuotes == MkErr("provided parts has unclosed quotes")
ErrNotInstantiated == MkErr("Command not instantiated")
ErrAttachType == MkErr("unexpected attach type")
\* the *exec.Error of cmd.Start for a binary that does not exist
ErrNotFound == MkErr("executable file not found in $PATH")

\* an attach type that is none of the three declared
attachUnknown == "attachedOuput(3)"

\* io.Reader values: nil, strings.NewReader(b), io.MultiReader(a, b)
NilReader == [nil |-> TRUE, data |-> <<>>]
NewReader(b) == [nil |-> FALSE, data |-> b]
MultiReader(a, b) == [nil |-> FALSE, data |-> a.data \o b.data]
Readers == {NewReader(<<"a">>), NewReader(<<"a", NL>>)}

\* Cmd(ctx, parts...)
Cmd(parts) ==
    IF ~Split(parts).ok
    THEN [args |-> <<>>, environ |-> <<>>, dir |-> "", stdin |-> NilReader,
          attach |-> attachCombined, buildError |-> ErrUnclosedQuotes]
    ELSE [args |-> Split(parts).args, environ |-> <<>>, dir |-> "", stdin |-> NilReader,
          attach |-> attachCombined, buildError |-> NoErr]

\* the binaries there are: cat copies its stdin to stdout and exits 0; sh stands for
\* a script that writes to both streams and exits 3
Binaries == {"cat", "sh"}
ProgOut(args, stdin) == CASE args[1] = "cat" -> stdin.data
                          [] args[1] = "sh" -> <<"a", NL>>
                          [] OTHER -> <<>>
ProgErr(args) == IF args[1] = "sh" THEN <<"b", NL>> ELSE <<>>
ProgCode(args) == IF args[1] = "sh" THEN 3 ELSE 0

\* the Command, the parts it was built from and the client, before any call
NewCommand(parts, attach, client) ==
    [Cmd(parts) EXCEPT !.attach = attach]
    @@ [parts |-> parts, calls |-> <<>>, client |-> client, output |-> "none",
        oerr |-> NoErr, out |-> <<>>, err |-> <<>>, code |-> 0, maps |-> <<>>, script |-> <<>>]

\* a call on the Command before Run: the Command it leaves, and the record of the call
Configure(c, op) ==
    /\ cmd.output = "none" /\ Len(cmd.calls) < MaxBuild
    /\ cmd' = [c EXCEPT !.calls = Append(@, op)]
    /\ UNCHANGED <<mapFuncs, proc, osPipe, stderrCopy, pipe, enq, closes, once, waiters,
                   wacRuns, call, sink, task, linesC, mapped, hist>>

\* an Input that replaces the input set before
InputReplaces(input) == Configure([cmd EXCEPT !.stdin = input], [op |-> "Input", r |-> input])

\* Command.Input
Input(input) ==
    Configure([cmd EXCEPT !.stdin = IF ~cmd.stdin.nil THEN MultiReader(cmd.stdin, input)
                                    ELSE input],
              [op |-> "Input", r |-> input])

\* Command.ResetInput
ResetInput == Configure([cmd EXCEPT !.stdin = NilReader], [op |-> "ResetInput", r |-> NilReader])

\* a StdOut that leaves a mode chosen before as it is
StdOutKeepsMode ==
    Configure([cmd EXCEPT !.attach = IF @ = attachCombined THEN attachOnlyStdOut ELSE @],
              [op |-> "StdOut", r |-> NilReader])

\* Command.StdOut
StdOut == Configure([cmd EXCEPT !.attach = attachOnlyStdOut], [op |-> "StdOut", r |-> NilReader])

\* Command.StdErr
StdErr == Configure([cmd EXCEPT !.attach = attachOnlyStdErr], [op |-> "StdErr", r |-> NilReader])

\* the error Run and attachOutputAndRun return an error-only Output for, nil when
\* the command is started
RunError(c) ==
    IF c.buildError # NoErr THEN c.buildError
    ELSE IF Len(c.args) = 0 THEN ErrNotInstantiated
    ELSE IF c.attach \notin AttachModes THEN ErrAttachType
    ELSE IF c.args[1] \notin Binaries THEN ErrNotFound
    ELSE NoErr

\* Command.Run: NewErrorOutput(err), or the commandOutput of the started process,
\* which the client then configures and consumes
Run ==
    /\ cmd.output = "none"
    /\ IF RunError(cmd) # NoErr
       THEN /\ cmd' = [cmd EXCEPT !.output = "errorOutput", !.oerr = RunError(cmd)]
            /\ UNCHANGED proc
       ELSE /\ cmd' = [cmd EXCEPT !.output = "commandOutput",
                                  !.out = ProgOut(cmd.args, cmd.stdin),
                                  !.err = ProgErr(cmd.args), !.code = ProgCode(cmd.args),
                                  !.maps = cmd.client.maps, !.script = cmd.client.script]
            /\ proc' = [state |-> "running", out |-> ProgOut(cmd.args, cmd.stdin),
                        err |-> ProgErr(cmd.args)]
    /\ UNCHANGED <<mapFuncs, osPipe, stderrCopy, pipe, enq, closes, once, waiters,
                   wacRuns, call, sink, task, linesC, mapped, hist>>

\* the methods of errorOutput
ErrorKinds == {"Map", "Stream", "StreamLines", "Lines", "JQ", "Read", "WriteTo", "Wait"}

\* an errorOutput whose Wait has nothing to wait for and returns nil
ErrorOutputWaitNil ==
    /\ cmd.output = "errorOutput" /\ call.pos <= Len(cmd.client.script)
    /\ call' = [call EXCEPT !.id = @ + 1, !.pos = @ + 1]
    /\ hist' = IF cmd.client.script[call.pos].kind = "Map" THEN hist
               ELSE Append(hist, [id |-> call.id + 1, kind |-> cmd.client.script[call.pos].kind,
                                  err |-> IF cmd.client.script[call.pos].kind = "Wait"
                                          THEN NoErr ELSE cmd.oerr,
                                  bytes |-> <<>>, lines |-> <<>>,
                                  p |-> cmd.client.script[call.pos].p, str |-> <<>>])
    /\ UNCHANGED <<cmd, mapFuncs, proc, osPipe, stderrCopy, pipe, enq, closes, once, waiters,
                   wacRuns, sink, task, linesC, mapped>>

\* errorOutput: Map returns the Output itself; every other method returns o.err and
\* nothing else
ErrorOutputCall ==
    /\ cmd.output = "errorOutput" /\ call.pos <= Len(cmd.client.script)
    /\ call' = [call EXCEPT !.id = @ + 1, !.pos = @ + 1]
    /\ hist' = IF cmd.client.script[call.pos].kind = "Map" THEN hist
               ELSE Append(hist, [id |-> call.id + 1, kind |-> cmd.client.script[call.pos].kind,
                                  err |-> cmd.oerr, bytes |-> <<>>, lines |-> <<>>,
                                  p |-> cmd.client.script[call.pos].p, str |-> <<>>])
    /\ UNCHANGED <<cmd, mapFuncs, proc, osPipe, stderrCopy, pipe, enq, closes, once, waiters,
                   wacRuns, sink, task, linesC, mapped>>

\* the client of a command that starts, and of one that does not: every method of
\* the Output, in two orders
StreamClient == [maps |-> <<>>, script |-> <<CallOf("Stream")>>]
WaitClient == [maps |-> <<>>, script |-> <<CallOf("Wait"), CallOf("Wait")>>]
MethodsClient == [maps |-> <<>>,
                  script |-> <<CallOf("Map"), CallOf("Stream"), CallOf("StreamLines"),
                               CallOf("Lines"), CallOf("JQ"), CallOf("Read"),
                               CallOf("WriteTo"), CallOf("Wait")>>]
Reverse(s) == [i \in 1..Len(s) |-> s[Len(s) + 1 - i]]
MethodsReversed == [MethodsClient EXCEPT !.script = Reverse(@)]

Commands ==
    {NewCommand(<<"cat">>, attachCombined, StreamClient),
     NewCommand(<<"sh">>, attachCombined, StreamClient),
     NewCommand(<<"sh">>, attachCombined, WaitClient),
     NewCommand(<<"cat">>, attachUnknown, StreamClient)}
    \cup {NewCommand(p, attachCombined, cl) :
            p \in {<<>>, <<"nope">>, <<Quote, "cat">>}, cl \in {MethodsClient, MethodsReversed}}

\* a handle that Run has returned for a started command, with the call that chose
\* its mode
Started(c) ==
    c @@ [Cmd(<<"sh">>) EXCEPT !.attach = c.attach]
      @@ [parts |-> <<"sh">>,
          calls |-> CASE c.attach = attachOnlyStdOut -> <<[op |-> "StdOut", r |-> NilReader]>>
                      [] c.attach = attachOnlyStdErr -> <<[op |-> "StdErr", r |-> NilReader]>>
                      [] OTHER -> <<>>,
          client |-> [maps |-> c.maps, script |-> c.script],
          output |-> "commandOutput", oerr |-> NoErr]

\* a Command on which Run has not been called: no process, no pipe in use, no call
InitBuild(c) ==
    /\ cmd = c
    /\ proc = [state |-> "unstarted", out |-> <<>>, err |-> <<>>]
    /\ mapFuncs = <<>> /\ osPipe = [out |-> <<>>, err |-> <<>>] /\ stderrCopy = <<>>
    /\ pipe = NewPipe /\ enq = <<>> /\ closes = <<>> /\ once = "idle"
    /\ waiters = <<>> /\ wacRuns = 0 /\ call = NoCall /\ sink = NoSink /\ task = NoTask
    /\ linesC = [buf |-> <<>>, closed |-> FALSE]
    /\ mapped = [NewPipe EXCEPT !.created = FALSE]
    /\ hist = <<>>

InitCommand ==
    \/ \E c \in Commands : InitBuild(c)
    \/ \E c \in ShortCmds : InitWith(Started(c))

Build == (\E r \in Readers : Input(r)) \/ ResetInput \/ StdOut \/ StdErr

NextCommand == Build \/ Run \/ ErrorOutputCall \/ Next

\* commands from Cmd to the calls on the Output that Run returns
SpecCommand == InitCommand /\ [][NextCommand]_vars

(***************************************************************************)
(* The aggregator-based implementation: attachOutputAndRun builds three    *)
(* nio pipes over bounded buffers and hands every write of the process to  *)
(* them through io.MultiWriter; the aggregator reads one of them.  Here    *)
(*   pipe     holds the three pipes, by name                               *)
(*   osPipe   holds, beside the OS pipes, the copy goroutine of each       *)
(*   closes   lists the closers that waitFunc has closed                   *)
(*   waiters  is the goroutine that runs aggregator.Wait                   *)
(*   task     is the goroutine that reads aggregator.reader                *)
(***************************************************************************)
\* const maxBufferSize of this implementation: the size of each pipe's buffer
aggregatorBufferSize == 4

\* cmd.Stdout and cmd.Stderr: the writers behind io.MultiWriter, in order
MultiWriter == [out |-> <<"stdout", "combined">>, err |-> <<"stderrCopy", "stderr", "combined">>]
\* closers, in the order they were appended
Closers == <<[pipe |-> "combined", half |-> "reader"], [pipe |-> "combined", half |-> "writer"],
             [pipe |-> "stdout", half |-> "reader"], [pipe |-> "stdout", half |-> "writer"],
             [pipe |-> "stderr", half |-> "reader"], [pipe |-> "stderr", half |-> "writer"]>>
\* aggregator.reader: combinedReader unless StdOut() or StdErr() has replaced it
aggReader == CASE cmd.attach = attachOnlyStdOut -> "stdout"
               [] cmd.attach = attachOnlyStdErr -> "stderr"
               [] OTHER -> "combined"

\* the room in a pipe's buffer; (*nio.PipeWriter).Write waits while there is none
aggRoom(pp) == aggregatorBufferSize - Len(pp.buf)

NoCopier == [st |-> "read", chunk |-> <<>>, rem |-> <<>>, w |-> 1]

\* os/exec's copy goroutine of stream s reads what the process has written
aggCopierRead(s) ==
    /\ osPipe.copy[s].st = "read" /\ Len(osPipe[s]) > 0
    /\ osPipe' = [osPipe EXCEPT ![s] = <<>>,
                               !.copy[s] = [st |-> "write", chunk |-> osPipe[s],
                                            rem |-> osPipe[s], w |-> 1]]
    /\ UNCHANGED <<cmd, mapFuncs, proc, stderrCopy, pipe, enq, closes, once, waiters, wacRuns,
                   call, sink, task, linesC, mapped, hist>>

\* the copier after the current writer of the MultiWriter has taken the whole chunk
aggNextWriter(s, c) ==
    IF c.w = Len(MultiWriter[s]) THEN NoCopier ELSE [c EXCEPT !.w = @ + 1, !.rem = c.chunk]

\* the MultiWriter hands the chunk to its writers one after the other; a pipe takes
\* what its buffer has room for and makes the writer wait for the rest
aggCopierWrite(s) ==
    /\ osPipe.copy[s].st = "write"
    /\ LET c == osPipe.copy[s]
           target == MultiWriter[s][c.w]
       IN IF target = "stderrCopy"
          THEN /\ stderrCopy' = stderrCopy \o c.chunk
               /\ osPipe' = [osPipe EXCEPT !.copy[s] = aggNextWriter(s, c)]
               /\ UNCHANGED pipe
          ELSE IF ~PipeCanWrite(pipe[target])
          THEN /\ osPipe' = [osPipe EXCEPT !.copy[s] = [c EXCEPT !.st = "done"]]
               /\ UNCHANGED <<pipe, stderrCopy>>
          ELSE /\ aggRoom(pipe[target]) > 0
               /\ LET n == Min(aggRoom(pipe[target]), Len(c.rem))
                  IN /\ pipe' = [pipe EXCEPT ![target].buf = @ \o Take(c.rem, n)]
                     /\ osPipe' = [osPipe EXCEPT !.copy[s] =
                                      IF n = Len(c.rem) THEN aggNextWriter(s, c)
                                      ELSE [c EXCEPT !.rem = Drop(@, n)]]
               /\ UNCHANGED stderrCopy
    /\ UNCHANGED <<cmd, mapFuncs, proc, enq, closes, once, waiters, wacRuns,
                   call, sink, task, linesC, mapped, hist>>

\* the process has exited and its OS pipe is empty: the copy goroutine returns
aggCopierEOF(s) ==
    /\ osPipe.copy[s].st = "read" /\ Len(osPipe[s]) = 0 /\ proc.state = "exited"
    /\ osPipe' = [osPipe EXCEPT !.copy[s].st = "done"]
    /\ UNCHANGED <<cmd, mapFuncs, proc, stderrCopy, pipe, enq, closes, once, waiters, wacRuns,
                   call, sink, task, linesC, mapped, hist>>

\* aggregator.Stream -> WriteTo: one goroutine reads a.reader, one runs a.Wait()
aggWriteTo ==
    /\ call.pc = "idle" /\ call.pos <= Len(cmd.script)
    /\ cmd.script[call.pos].kind = "Stream"
    /\ call' = [id |-> call.id + 1, pos |-> call.pos, kind |-> "Stream", pc |-> "writeTo", p |-> 0]
    /\ waiters' = [pc |-> "cmdWait", err |-> NoErr, finalized |-> TRUE]
    /\ task' = [NoTask EXCEPT !.st = "run", !.dst = "raw"]
    /\ sink' = NoSink
    /\ UNCHANGED <<cmd, mapFuncs, proc, osPipe, stderrCopy, pipe, enq, closes, once, wacRuns,
                   linesC, mapped, hist>>

\* cmd.Wait returns when the process has exited and both copy goroutines have returned
aggCmdWaitReturns ==
    proc.state = "exited" /\ osPipe.copy.out.st = "done" /\ osPipe.copy.err.st = "done"

\* waitFunc: cmdErr := cmd.Wait()
aggCmdWait ==
    /\ waiters.pc = "cmdWait" /\ aggCmdWaitReturns
    /\ waiters' = [waiters EXCEPT !.pc = "close"]
    /\ UNCHANGED <<cmd, mapFuncs, proc, osPipe, stderrCopy, pipe, enq, closes, once, wacRuns,
                   call, sink, task, linesC, mapped, hist>>

\* waitFunc: closer.Close() for the next closer; after the last, Wait returns
\* newError(cmdErr, &stderrCopy)
aggClose ==
    /\ waiters.pc = "close"
    /\ LET c == Closers[Len(closes) + 1]
       IN /\ pipe' = [pipe EXCEPT ![c.pipe] = IF c.half = "reader" THEN PipeReaderClose(@)
                                               ELSE PipeCloseWithError(@, NoErr)]
          /\ closes' = Append(closes, [pipe |-> c.pipe, half |-> c.half,
                                       pending |-> Len(pipe[c.pipe].buf)])
    /\ waiters' = IF Len(closes) + 1 = Len(Closers)
                  THEN [waiters EXCEPT !.pc = "done",
                                       !.err = newError(cmdWait(cmd.code), stderrCopy)]
                  ELSE waiters
    /\ UNCHANGED <<cmd, mapFuncs, proc, osPipe, stderrCopy, enq, once, wacRuns,
                   call, sink, task, linesC, mapped, hist>>

\* written, _ := io.Copy(dst, a.reader): the error that ends the copy is dropped
aggCopy ==
    /\ task.st = "run" /\ mapFuncs = <<>> /\ PipeCanRead(pipe[aggReader])
    /\ LET r == PipeRead(pipe[aggReader], Len(pipe[aggReader].buf))
       IN /\ pipe' = [pipe EXCEPT ![aggReader] = r.pipe]
          /\ IF r.err # NoErr
             THEN task' = [task EXCEPT !.st = "done", !.rdErr = r.err] /\ UNCHANGED sink
             ELSE /\ sink' = [sink EXCEPT !.bytes = @ \o r.data, !.writes = @ + 1]
                  /\ task' = [task EXCEPT !.written = @ + Len(r.data)]
    /\ UNCHANGED <<cmd, mapFuncs, proc, osPipe, stderrCopy, enq, closes, once, waiters, wacRuns,
                   call, linesC, mapped, hist>>

\* mappedLinePipe: the scanner reads from a.reader into the free part of its buffer
aggScanRead ==
    /\ task.st = "run" /\ mapFuncs # <<>>
    /\ ~scanHasToken(task) /\ task.rdErr = NoErr /\ Len(task.buf) < ScanTokenLimit
    /\ PipeCanRead(pipe[aggReader])
    /\ LET r == PipeRead(pipe[aggReader], ScanTokenLimit - Len(task.buf))
       IN /\ pipe' = [pipe EXCEPT ![aggReader] = r.pipe]
          /\ task' = [task EXCEPT !.buf = @ \o r.data, !.rdErr = r.err]
    /\ UNCHANGED <<cmd, mapFuncs, proc, osPipe, stderrCopy, enq, closes, once, waiters, wacRuns,
                   call, sink, linesC, mapped, hist>>

\* mappedLinePipe: one iteration of the scan loop on a token
aggScanToken ==
    /\ task.st = "run" /\ mapFuncs # <<>> /\ scanHasToken(task)
    /\ LET r == applyMaps(mapFuncs, scanToken(task))
           t == [task EXCEPT !.buf = scanRest(task), !.toks = Append(@, scanToken(task)),
                             !.log = Append(@, r.seen)]
       IN IF r.err # NoErr
          THEN task' = [t EXCEPT !.st = "done", !.err = r.err] /\ UNCHANGED sink
          ELSE /\ task' = [t EXCEPT !.written = @ + Len(lineOut(r))]
               /\ sink' = [sink EXCEPT !.bytes = @ \o lineOut(r),
                                       !.writes = @ + IF Len(lineOut(r)) > 0 THEN 1 ELSE 0]
    /\ UNCHANGED <<cmd, mapFuncs, proc, osPipe, stderrCopy, pipe, enq, closes, once, waiters,
                   wacRuns, call, linesC, mapped, hist>>

\* mappedLinePipe: Scan returns false, at the reader's error or at a line that does
\* not fit the scanner's buffer; the function returns totalWritten, nil
aggScanEnd ==
    /\ task.st = "run" /\ mapFuncs # <<>> /\ ~scanHasToken(task)
    /\ task.rdErr # NoErr \/ Len(task.buf) >= ScanTokenLimit
    /\ task' = [task EXCEPT !.st = "done", !.err = NoErr]
    /\ UNCHANGED <<cmd, mapFuncs, proc, osPipe, stderrCopy, pipe, enq, closes, once, waiters,
                   wacRuns, call, sink, linesC, mapped, hist>>

\* WriteTo returns when both goroutines are done: the error of Wait, or else that of
\* mappedLinePipe
aggReturn ==
    /\ call.pc = "writeTo" /\ waiters.pc = "done" /\ task.st = "done"
    /\ hist' = Append(hist, [id |-> call.id, kind |-> call.kind,
                             err |-> IF waiters.err # NoErr THEN waiters.err ELSE task.err,
                             bytes |-> sink.bytes, lines |-> <<>>, p |-> 0, str |-> <<>>])
    /\ call' = [call EXCEPT !.pc = "idle", !.pos = @ + 1]
    /\ UNCHANGED <<cmd, mapFuncs, proc, osPipe, stderrCopy, pipe, enq, closes, once, waiters,
                   wacRuns, sink, task, linesC, mapped>>

\* more than one buffer holds, in lines
AggregatorLargeOut == [i \in 1..(aggregatorBufferSize + 1) |-> IF i % 2 = 1 THEN "a" ELSE NL]
AggregatorCmds == {[out |-> o, err |-> x.err, code |-> x.code, attach |-> a, maps |-> m,
                    script |-> <<CallOf("Stream")>>] :
                      o \in {<<"a", NL>>, LongLine, AggregatorLargeOut},
                      x \in {[code |-> 0, err |-> <<>>], [code |-> 3, err |-> <<"b", NL>>]},
                      a \in AttachModes, m \in {<<>>, <<"pass">>}}

InitAggregator ==
    /\ cmd \in AggregatorCmds
    /\ mapFuncs = cmd.maps
    /\ proc = [state |-> "running", out |-> cmd.out, err |-> cmd.err]
    /\ osPipe = [out |-> <<>>, err |-> <<>>, copy |-> [out |-> NoCopier, err |-> NoCopier]]
    /\ stderrCopy = <<>>
    /\ pipe = [combined |-> NewPipe, stdout |-> NewPipe, stderr |-> NewPipe]
    /\ enq = <<>> /\ closes = <<>> /\ once = "idle" /\ wacRuns = 0
    /\ waiters = [pc |-> "idle", err |-> NoErr, finalized |-> FALSE]
    /\ call = NoCall /\ sink = NoSink /\ task = NoTask
    /\ linesC = [buf |-> <<>>, closed |-> FALSE]
    /\ mapped = [NewPipe EXCEPT !.created = FALSE]
    /\ hist = <<>>

NextAggregator ==
    \/ ProcWriteOut \/ ProcWriteErr \/ ProcExit
    \/ \E s \in {"out", "err"} : aggCopierRead(s)
    \/ \E s \in {"out", "err"} : aggCopierWrite(s)
    \/ \E s \in {"out", "err"} : aggCopierEOF(s)
    \/ aggWriteTo \/ aggCmdWait \/ aggClose
    \/ aggCopy \/ aggScanRead \/ aggScanToken \/ aggScanEnd
    \/ aggReturn

\* every goroutine that can run is scheduled
SpecAggregator == InitAggregator /\ [][NextAggregator]_vars /\ WF_vars(NextAggregator)

(***************************************************************************)
(* The scan loop of lineMaps.Pipe on its own, with the scratch buffer      *)
(* `buf` kept from one line to the next as the code keeps it: the source   *)
(* has been read to its end into the scanner, task.scratch is buf.         *)
(***************************************************************************)
\* a loop that goes to the next line without the Reset
bufKept(r) == r.buf

\* buf.Reset() "for next line"
bufReset(r) == <<>>

\* one iteration of the scan loop: the stages run on the line over buf
PipeLine ==
    /\ task.st = "run" /\ scanHasToken(task)
    /\ LET r == mapLoop(mapFuncs, 1, scanToken(task), task.scratch, TRUE, <<>>)
           t == [task EXCEPT !.buf = scanRest(task), !.toks = Append(@, scanToken(task)),
                             !.log = Append(@, r.seen)]
       IN IF r.err # NoErr
          THEN task' = [t EXCEPT !.st = "done", !.err = r.err, !.scratch = r.buf]
               /\ UNCHANGED sink
          ELSE /\ task' = [t EXCEPT !.written = @ + Len(lineOut(r)), !.scratch = bufReset(r)]
               /\ sink' = [sink EXCEPT !.bytes = @ \o lineOut(r),
                                       !.writes = @ + IF Len(lineOut(r)) > 0 THEN 1 ELSE 0]
    /\ UNCHANGED <<cmd, mapFuncs, proc, osPipe, stderrCopy, pipe, enq, closes, once, waiters,
                   wacRuns, call, linesC, mapped, hist>>

\* Scan returns false: return totalWritten, scanner.Err()
PipeEnd ==
    /\ task.st = "run" /\ ~scanHasToken(task)
    /\ task' = [task EXCEPT !.st = "done", !.err = scannerErr(task.rdErr)]
    /\ UNCHANGED <<cmd, mapFuncs, proc, osPipe, stderrCopy, pipe, enq, closes, once, waiters,
                   wacRuns, call, sink, linesC, mapped, hist>>

\* every chain of one or two stages over every short input
ScratchChains == SeqsUpTo(StageKinds, 2) \ {<<>>}
ScratchCmds == [out : SeqsUpTo({"a", NL}, MaxLen), err : {<<>>}, code : {0},
                attach : {attachOnlyStdOut}, maps : ScratchChains,
                script : {<<CallOf("Stream")>>}]

InitScratch ==
    /\ cmd \in ScratchCmds
    /\ mapFuncs = cmd.maps
    /\ proc = [state |-> "exited", out |-> <<>>, err |-> <<>>]
    /\ osPipe = [out |-> <<>>, err |-> <<>>]
    /\ stderrCopy = <<>>
    /\ pipe = [NewPipe EXCEPT !.werr = EOF]
    /\ enq = cmd.out /\ closes = <<>> /\ once = "idle" /\ waiters = <<>> /\ wacRuns = 0
    /\ call = NoCall /\ sink = NoSink
    /\ task = [NoTask EXCEPT !.st = "run", !.dst = "raw", !.buf = cmd.out, !.rdErr = EOF]
              @@ [scratch |-> <<>>]
    /\ linesC = [buf |-> <<>>, closed |-> FALSE]
    /\ mapped = [NewPipe EXCEPT !.created = FALSE]
    /\ hist = <<>>

NextScratch == PipeLine \/ PipeEnd

SpecScratch == InitScratch /\ [][NextScratch]_vars

(***************************************************************************)
(* Claims.                                                                 *)
(***************************************************************************)
\* the calls that consume the output to its end, or wait for the command
Terminal(h) == h.kind \in {"Stream", "StreamLines", "Lines", "String", "Wait"}
               \/ (h.kind = "Read" /\ h.err # NoErr)

\* C1: over any number of consumption calls on one handle, waitAndCloseFunc runs at
\* most once; every other waitAndClose invocation returns "output has already been
\* consumed" without running it, and only after the running invocation has completed.
C1_WaitAndCloseOnce ==
    /\ wacRuns <= 1
    /\ Cardinality({w \in DOMAIN waiters : waiters[w].ran}) <= 1
    /\ \A w \in DOMAIN waiters :
         (waiters[w].pc = "done" /\ ~waiters[w].ran)
            => /\ waiters[w].err = ErrConsumed
               /\ once = "done"
               /\ \E x \in DOMAIN waiters : waiters[x].ran /\ waiters[x].pc = "done"

\* an invocation that began while the Once was not yet done has returned the fixed
\* error, next to the one that ran waitAndCloseFunc
C1_Witness ==
    \E w, x \in DOMAIN waiters :
        /\ waiters[w].pc = "done" /\ ~waiters[w].ran /\ waiters[w].early
        /\ waiters[w].err = ErrConsumed
        /\ waiters[x].ran /\ wacRuns = 1

\* C2: after one terminal consumption call has completed on a handle, a second
\* terminal consumption call returns the "already consumed" error, and the process
\* wait is not run again.
C2_SecondCallConsumed ==
    /\ wacRuns <= 1
    /\ \A i, j \in DOMAIN hist :
         (i < j /\ Terminal(hist[i]) /\ Terminal(hist[j])) => hist[j].err = ErrConsumed

(***************************************************************************)
(* Reference semantics of line-oriented output, over a whole payload.      *)
(***************************************************************************)
\* the lines of a payload: split at "\n", one "\r" before it removed, the rest after
\* the last "\n" a line of its own when not empty
RefLines(data) == scanAll(data, Len(data) + 1, <<>>).tokens

\* every line of the payload, terminator included, fits the scanner's buffer
NoLongLine(data) == scanAll(data, ScanTokenLimit, <<>>).err = NoErr

\* a chain of stages each writing its result once
WritingChain(m) == Len(m) > 0 /\ \A k \in DOMAIN m : m[k] \in {"pass", "upper"}
StageFn(f, line) == IF f = "upper" THEN Upper(line)
                    ELSE IF f = "addA" THEN line \o <<"a">> ELSE line
RECURSIVE ComposeStages(_, _)
ComposeStages(m, line) ==
    IF m = <<>> THEN line ELSE ComposeStages(Tail(m), StageFn(Head(m), line))

RECURSIVE JoinLines(_)
JoinLines(ls) == IF ls = <<>> THEN <<>> ELSE Head(ls) \o <<NL>> \o JoinLines(Tail(ls))

RECURSIVE Flatten(_)
Flatten(ss) == IF ss = <<>> THEN <<>> ELSE Head(ss) \o Flatten(Tail(ss))

\* the payload transformed line by line by a chain
MappedLines(m, data) ==
    [k \in DOMAIN RefLines(data) |-> ComposeStages(m, RefLines(data)[k])]

\* the payload is empty or ends with "\n", and no line ends with "\r"
NewlineClean(data) ==
    /\ (data = <<>> \/ HasSuffixNL(data))
    /\ \A k \in 1..(Len(data) - 1) : ~(data[k] = CR /\ data[k + 1] = NL)

\* everything the calls made so far have returned as bytes, in order
HistBytes == Flatten([k \in DOMAIN hist |-> hist[k].bytes])

\* the client makes one consumption call (a Read is repeated to the end)
SingleCall == Len(cmd.script) = 1

\* C3: when the process exits with code N > 0 after writing S to stderr, the error
\* returned by every consumption mode is the process error: ExitCode gives N, and its
\* text carries S with surrounding whitespace trimmed.
C3_ProcessErrorReturned ==
    \A i \in DOMAIN hist :
        (cmd.code > 0 /\ Terminal(hist[i]) /\ \A j \in 1..(i - 1) : ~Terminal(hist[j]))
           => /\ hist[i].err.kind = "runError"
              /\ ExitCode(hist[i].err) = cmd.code
              /\ ErrorText(hist[i].err)
                    = IF TrimSpace(cmd.err) = <<>> THEN <<ExitStatusText[cmd.code]>>
                      ELSE <<ExitStatusText[cmd.code], ":", " ">> \o TrimSpace(cmd.err)

\* C4: for any payload written by a process that exits cleanly, Stream with no maps
\* writes exactly that payload to the destination, final newline or not, and
\* returns nil.
C4_StreamExactPayload ==
    (hist # <<>> /\ hist[1].kind = "Stream" /\ cmd.maps = <<>> /\ cmd.code = 0
       /\ cmd.attach = attachOnlyStdOut)
        => hist[1].err = NoErr /\ hist[1].bytes = cmd.out

\* Stream has returned a payload that holds a carriage return and no final newline
C4_Witness ==
    /\ hist # <<>> /\ hist[1].kind = "Stream" /\ cmd.maps = <<>> /\ cmd.code = 0
    /\ hist[1].err = NoErr /\ hist[1].bytes = cmd.out
    /\ cmd.out = <<"a", NL, CR>>

RoutedLen(c) == (IF c.attach = attachOnlyStdErr THEN 0 ELSE Len(c.out))
                + (IF c.attach = attachOnlyStdOut THEN 0 ELSE Len(c.err))

\* the coordinator: 1 Running, 2 ExitObserved (cmd.Wait returned), 3 Closed
CoordPhase == IF pipe.werr # NoErr THEN 3
              ELSE IF \E w \in DOMAIN waiters : waiters[w].pc = "close" THEN 2
              ELSE 1

C6_CloseState ==
    /\ Len(closes) <= 1
    /\ (pipe.werr # NoErr) <=> (Len(closes) = 1)
    /\ \A i \in DOMAIN closes : closes[i].exited /\ closes[i].waited /\ closes[i].pending = 0
    /\ pipe.werr # NoErr =>
         /\ Len(enq) = RoutedLen(cmd)
         /\ cmd.attach = attachOnlyStdOut => enq = cmd.out
         /\ cmd.attach = attachOnlyStdErr => enq = cmd.err

\* C6: the write half of the output pipe is closed exactly once, only after cmd.Wait
\* has returned and every byte the process wrote has been enqueued; nothing is
\* enqueued after the close, and the coordinator never moves back.
C6_CloseAfterExitAndDrain ==
    /\ [](C6_CloseState)
    /\ [][/\ CoordPhase' >= CoordPhase
          /\ pipe.werr # NoErr => (pipe'.werr = pipe.werr /\ enq' = enq)]_vars

\* the pipe has been closed after a process wrote output and exited
C6_Witness ==
    /\ Len(closes) = 1 /\ pipe.werr # NoErr
    /\ Len(cmd.out) > 0 /\ Len(enq) > 0

\* the elements Lines and StreamLines deliver for the lines handed to the handler:
\* lineWriter scans each written line again, which removes one more "\r"
Handled(ls) == [k \in DOMAIN ls |-> dropCR(ls[k])]

\* what a call that consumes all output has to deliver before it returns
ExpectedBytes == IF cmd.maps = <<>> THEN enq ELSE JoinLines(MappedLines(cmd.maps, enq))
ExpectedLines == Handled(MappedLines(cmd.maps, enq))

\* C7: the terminal error never pre-empts buffered output: when the process writes
\* output and exits with an error, Stream, StreamLines, Lines, String and Read have
\* delivered every byte or line enqueued before the close, a final line without
\* terminator included, when they return that error; no read returns it while
\* unread bytes remain.
C7_ErrorAfterOutput ==
    \A i \in DOMAIN hist :
        (SingleCall /\ hist[i].err.kind = "runError" /\ hist[i].kind # "Wait"
           /\ (cmd.maps = <<>> \/ WritingChain(cmd.maps)))
           => /\ pipe.werr # NoErr /\ pipe.buf = <<>>
              /\ hist[i].kind \in {"Stream", "String", "Read"} => HistBytes = ExpectedBytes
              /\ hist[i].kind = "String" => hist[i].str = ExpectedBytes
              /\ hist[i].kind \in {"StreamLines", "Lines"} => hist[i].lines = ExpectedLines
              /\ (hist[i].kind = "Read" /\ cmd.maps # <<>>) => mapped.buf = <<>>

\* Lines has returned the process error with both lines, the last one unterminated
C7_Witness ==
    /\ hist # <<>> /\ hist[1].kind = "Lines" /\ hist[1].err.kind = "runError"
    /\ cmd.out = <<"a", NL, "a">> /\ cmd.code = 3
    /\ hist[1].lines = << <<"a">>, <<"a">> >>

\* a Stream without maps of a payload larger than the in-memory buffer
LargeStream ==
    /\ cmd.script = <<CallOf("Stream")>> /\ cmd.maps = <<>>
    /\ cmd.attach = attachOnlyStdOut /\ Len(cmd.out) > maxBufferSize

\* C8: for any output size, sizes larger than maxBufferSize included, Stream on a
\* cleanly exiting process terminates and delivers the output byte for byte.
C8_LargeOutputDelivered ==
    /\ []((LargeStream /\ cmd.code = 0 /\ hist # <<>>)
              => (hist[1].bytes = cmd.out /\ hist[1].err = NoErr))
    /\ <>((LargeStream /\ cmd.code = 0) => hist # <<>>)

\* Stream has returned a payload larger than the in-memory buffer
C8_Witness ==
    /\ LargeStream /\ hist # <<>> /\ Len(cmd.out) = LargeLen
    /\ hist[1].bytes = cmd.out /\ hist[1].err = NoErr

\* Lines returns the lines of the payload, empty ones included, with no maps and
\* with a pass-through map
C9_LinesOfAnyOutput ==
    (hist # <<>> /\ hist[1].kind = "Lines" /\ cmd.maps \in {<<>>, <<"pass">>}
       /\ cmd.attach = attachOnlyStdOut)
        => hist[1].lines = RefLines(cmd.out)

\* C9: for any output whose lines fit the scanner's buffer, Lines returns one
\* element per line, in order, with the "\n" and up to two "\r" before it stripped,
\* empty lines kept as empty elements; the same with no maps and with a
\* pass-through map.
C9_LinesKeepEmptyLines ==
    (hist # <<>> /\ hist[1].kind = "Lines" /\ cmd.maps \in {<<>>, <<"pass">>}
       /\ cmd.attach = attachOnlyStdOut /\ NoLongLine(cmd.out))
        => /\ hist[1].lines = Handled(RefLines(cmd.out))
           /\ Len(hist[1].lines) = Len(RefLines(cmd.out))

\* Lines through a pass-through map has returned an empty element for an empty line
C9_Witness ==
    /\ hist # <<>> /\ hist[1].kind = "Lines" /\ cmd.maps = <<"pass">>
    /\ cmd.out = <<NL, "a", NL>>
    /\ hist[1].lines = << <<>>, <<"a">> >>

\* what one stage leaves of the lines handed to it: nothing of a line it performs
\* no write on, its result otherwise
KeptLines(f, ls) ==
    Flatten([k \in DOMAIN ls |-> IF RunStage(f, ls[k]).called
                                 THEN <<RunStage(f, ls[k]).wrote>> ELSE <<>>])

\* C10: a stage that performs no write on a line elides that line: Lines and
\* StreamLines do not deliver it, nor an empty element in its place, and deliver the
\* lines before and after it as they would be without the stage, in order.
C10_NoWriteElidesLine ==
    (SingleCall /\ hist # <<>> /\ hist[1].kind \in {"Lines", "StreamLines"}
       /\ Len(cmd.maps) = 1 /\ hist[1].err # ErrMap)
        => hist[1].lines = Handled(KeptLines(cmd.maps[1], task.toks))

\* Lines has returned the lines around an elided one, an empty line among them
C10_Witness ==
    /\ hist # <<>> /\ hist[1].kind = "Lines" /\ cmd.maps = <<"skipA">>
    /\ cmd.out = <<NL, "a", NL>> /\ task.toks = << <<>>, <<"a">> >>
    /\ hist[1].lines = << <<>> >>

\* the call has run to the end of the output: an error ended a Read
Drained == \E i \in DOMAIN hist : hist[i].err # NoErr

\* a handle carrying one filtering stage, consumed as a byte stream to its end
FilteredByteStream ==
    /\ SingleCall /\ hist # <<>> /\ cmd.maps \in FilterChains
    /\ hist[1].kind = "Stream" \/ (hist[1].kind = "Read" /\ Drained)

\* byte-stream consumption of a handle carrying a filtering stage still delivers the
\* bytes of every line
C11_ByteStreamUntouched ==
    FilteredByteStream => HistBytes = JoinLines(task.toks)

\* C11: a transform performing no write on a line removes that line from every
\* consumption of a handle carrying it: Lines and StreamLines do not deliver it, and
\* Stream / WriteTo and Read, which deliver the mapped output, do not deliver its bytes
\* either, while the other lines are delivered with their terminator.
C11_NoWriteRemovesLineEverywhere ==
    /\ FilteredByteStream => HistBytes = JoinLines(KeptLines(cmd.maps[1], task.toks))
    /\ (SingleCall /\ hist # <<>> /\ cmd.maps \in FilterChains
          /\ hist[1].kind \in {"Lines", "StreamLines"})
         => hist[1].lines = Handled(KeptLines(cmd.maps[1], task.toks))

\* Read has reached the end of a filtered output that lacks the elided line
C11_Witness ==
    /\ FilteredByteStream /\ hist[1].kind = "Read" /\ cmd.maps = <<"skipA">>
    /\ cmd.out = <<NL, "a", NL>> /\ task.toks = << <<>>, <<"a">> >>
    /\ HistBytes = <<NL>>

\* C12: a stage that calls write with zero-length content preserves the line as an
\* empty line rather than eliding it: for any input line, empty or not, and any
\* position of the stage in the chain, the line delivered is the empty line.
C12_EmptyWriteGivesEmptyLine ==
    (SingleCall /\ hist # <<>> /\ cmd.maps \in EmptyChains)
        => /\ hist[1].kind \in {"Lines", "StreamLines"}
                => hist[1].lines = [k \in DOMAIN task.toks |-> <<>>]
           /\ hist[1].kind = "Stream"
                => hist[1].bytes = [k \in DOMAIN task.toks |-> NL]

\* C13: every line for which the last executed stage called write is delivered to
\* the destination exactly once, ending in exactly one line terminator: content that
\* already ends in "\n" is delivered as it is, without a second terminator.
C13_OneTerminatorPerLine ==
    (SingleCall /\ hist # <<>> /\ cmd.maps = <<"nl">>)
        => /\ hist[1].kind = "Stream" => hist[1].bytes = JoinLines(task.toks)
           /\ hist[1].kind \in {"Lines", "StreamLines"} => hist[1].lines = task.toks

\* C14: stages run in registration order on each line, one at a time: stage i+1 is
\* invoked after stage i with exactly the bytes stage i wrote for that line, so with
\* maps f1..fn that each write their result the delivered line is fn(...f1(line)).
C14_StagesInOrder ==
    (SingleCall /\ hist # <<>> /\ cmd.maps \in OrderChains /\ hist[1].kind = "Stream")
        => /\ hist[1].bytes = JoinLines([k \in DOMAIN task.toks |->
                                            ComposeStages(cmd.maps, task.toks[k])])
           /\ \A k \in DOMAIN task.log :
                /\ Len(task.log[k]) = Len(cmd.maps)
                /\ \A i \in DOMAIN task.log[k] :
                     /\ task.log[k][i].stage = i
                     /\ task.log[k][i].line
                           = ComposeStages(SubSeq(cmd.maps, 1, i - 1), task.toks[k])

\* the stage invoked last on the line scanned last, and whether it returned an error
LastInvocation == task.log[Len(task.log)][Len(task.log[Len(task.log)])]
LastStageFailed ==
    /\ task.log # <<>> /\ task.log[Len(task.log)] # <<>>
    /\ RunStage(cmd.maps[LastInvocation.stage], LastInvocation.line).err # NoErr

\* the lines before the one scanned last
LinesBeforeLast == SubSeq(task.toks, 1, Len(task.toks) - 1)

C16_CommandErrorFirst ==
    (SingleCall /\ hist # <<>> /\ cmd.maps \in FailChains
       /\ hist[1].kind \in {"Stream", "StreamLines", "Lines"})
        => /\ hist[1].err = ErrMap <=> (LastStageFailed /\ cmd.code = 0)
           /\ (LastStageFailed /\ cmd.code > 0)
                => hist[1].err = newError(cmdWait(cmd.code), cmd.err)

\* C17: String is Stream into an in-memory buffer with exactly one trailing line
\* terminator trimmed: for every process outcome, clean or failing, the text returned
\* is what Stream writes with one trailing "\n" removed if present, and the error is
\* the one Stream returns.
C17_StringIsTrimmedStream ==
    (SingleCall /\ hist # <<>> /\ hist[1].kind = "String"
       /\ (cmd.maps = <<>> \/ (WritingChain(cmd.maps) /\ NoLongLine(cmd.out)))
       /\ cmd.attach = attachOnlyStdOut)
        => /\ hist[1].bytes = ExpectedBytes
           /\ hist[1].str = TrimSuffixNL(hist[1].bytes)
           /\ hist[1].err = newError(cmdWait(cmd.code), cmd.err)

\* the client only reads
OnlyReads == \A k \in DOMAIN cmd.script : cmd.script[k].kind = "Read"

\* s is the beginning of t
IsPrefix(s, t) == Len(s) <= Len(t) /\ s = SubSeq(t, 1, Len(s))

\* the error a reader meets at the end of the output
TerminalErr == IF cmd.code = 0 THEN EOF ELSE newError(cmdWait(cmd.code), cmd.err)

\* what Stream writes for the payload through the one registered stage
StreamWouldWrite == JoinLines(KeptLines(cmd.maps[1], RefLines(cmd.out)))

\* a consumption call starts
CallStarts == call'.id # call.id

C18_ReadState ==
    (OnlyReads /\ Len(cmd.maps) = 1 /\ NoLongLine(cmd.out) /\ cmd.attach = attachOnlyStdOut)
        => /\ IsPrefix(HistBytes, StreamWouldWrite)
           /\ Drained => HistBytes = StreamWouldWrite
           /\ \A i \in DOMAIN hist :
                /\ Len(hist[i].bytes) <= hist[i].p
                /\ hist[i].err # NoErr => (hist[i].err = TerminalErr /\ hist[i].bytes = <<>>)
                /\ hist[i].err # NoErr => mapped.buf = <<>>

\* C18: with maps registered Read exposes the transformed stream incrementally: for
\* any sequence of buffer sizes the bytes returned, put together, are the bytes Stream
\* would have written for the same output and chain; mappedData and its task are
\* created at most once per handle, on the first Read; after the transformed data is
\* drained Read returns the terminal error (EOF on a clean exit).
C18_MappedRead ==
    /\ [](C18_ReadState)
    /\ [][(CallStarts /\ call'.kind = "Read" /\ cmd.maps # <<>>)
             => IF mapped.created
                THEN mapped' = mapped /\ task' = task
                ELSE /\ hist = <<>> /\ mapped' = NewPipe
                     /\ task'.dst = "mapped" /\ task'.st = "run"]_vars
    /\ [][mapped.created => mapped'.created]_vars

\* Reads of 1, then 2 bytes at a time have returned a transformed two-line payload
C18_Witness ==
    /\ OnlyReads /\ Drained /\ cmd.maps = <<"upper">> /\ cmd.out = <<"a", NL, "a">>
    /\ cmd.script[1].p = 1 /\ cmd.script[2].p = 2
    /\ HistBytes = <<"b", NL, "b", NL>>

\* C19: Read supports arbitrary partial reads: each call returns at most len(p)
\* bytes; a Read that returns bytes returns a nil error; the bytes returned, put
\* together, are the process output in order; and once the output is exhausted every
\* further Read returns no bytes and the terminal error (EOF after a clean exit).
C19_PartialReads ==
    (OnlyReads /\ cmd.maps = <<>> /\ cmd.attach = attachOnlyStdOut)
        => /\ IsPrefix(HistBytes, cmd.out)
           /\ Drained => HistBytes = cmd.out
           /\ \A i \in DOMAIN hist :
                /\ Len(hist[i].bytes) <= hist[i].p
                /\ hist[i].bytes # <<>> => hist[i].err = NoErr
                /\ hist[i].err # NoErr => (hist[i].err = TerminalErr /\ hist[i].bytes = <<>>)
                /\ \A j \in DOMAIN hist : (i < j /\ hist[i].err # NoErr) => hist[j].err # NoErr

\* two Reads after the end of a cleanly exited process's output have returned EOF
C19_Witness ==
    /\ OnlyReads /\ cmd.maps = <<>> /\ cmd.code = 0 /\ cmd.out = <<"a", NL, "a">>
    /\ cmd.script[1].p = 2 /\ HistBytes = cmd.out
    /\ \E i, j \in DOMAIN hist : i < j /\ hist[i].err = EOF /\ hist[j].err = EOF

\* the lines Pipe has written so far through at most one stage that does not fail
WrittenLines == IF cmd.maps = <<>> THEN task.toks ELSE KeptLines(cmd.maps[1], task.toks)

\* C20: StreamLines invokes the callback exactly once per delivered line, in output
\* order, synchronously on the calling task: the invocations made are at every moment
\* those for the lines written so far, all of them have completed when StreamLines
\* returns, and none is made after it has returned.
C20_CallbackPerLine ==
    (cmd.script = <<CallOf("StreamLines")>> /\ call.id = 1 /\ Len(cmd.maps) <= 1
       /\ task.err # ErrMap)
        => /\ sink.lines = Handled(WrittenLines)
           /\ hist # <<>> => (hist[1].lines = sink.lines /\ task.st = "done")

\* StreamLines has returned after one callback for a line and one for an empty line
C20_Witness ==
    /\ cmd.script = <<CallOf("StreamLines")>> /\ hist # <<>>
    /\ cmd.maps = <<"pass">> /\ cmd.out = <<"a", NL, NL>>
    /\ hist[1].lines = << <<"a">>, <<>> >> /\ sink.lines = hist[1].lines

\* a single call of Lines with at most one stage
LinesCall == cmd.script = <<CallOf("Lines")>> /\ call.id = 1 /\ Len(cmd.maps) <= 1

\* the lines the scanning goroutine has handed over or is about to
RelayedLines == sink.lines \o linesC.buf \o task.pend

\* the channel is open while the goroutine scans and sends, closed from the return of
\* Pipe on; the lines received, in the channel and being sent are those written so
\* far, in order; Lines has returned only with the channel closed and empty, the
\* error of Pipe received, and every line in its result
C21_RelayState ==
    LinesCall =>
        /\ linesC.closed <=> task.st \in {"errc", "done"}
        /\ linesC.closed => task.pend = <<>>
        /\ Len(linesC.buf) <= LinesChanCap
        /\ task.err # ErrMap => RelayedLines = Handled(WrittenLines)
        /\ hist # <<>> => /\ linesC.closed /\ linesC.buf = <<>> /\ task.st = "done"
                          /\ hist[1].lines = sink.lines /\ hist[1].err = task.err

\* the close is a step of the running goroutine with nothing left to send, and the
\* closed channel takes no further line: it only gives up the lines it holds
C21_RelayStep ==
    LinesCall =>
        /\ (~linesC.closed /\ linesC'.closed)
              => (task.st = "run" /\ task.pend = <<>> /\ task'.st = "errc"
                    /\ linesC'.buf = linesC.buf)
        /\ linesC.closed
              => (linesC'.closed /\ (linesC'.buf = linesC.buf \/ linesC'.buf = Tail(linesC.buf)))

\* C21: in Lines the channel of lines is closed once, after the last line has been
\* sent, on every return of the scanning goroutine (end of the output, error of the
\* process, error of a stage); no line is sent after the close; Lines returns only
\* after the channel is closed and the goroutine's error is received, with every line
\* in order; and Lines returns in every execution, with more lines than the channel
\* holds too.
C21_LinesRelay ==
    /\ []C21_RelayState
    /\ [][C21_RelayStep]_vars
    /\ <>(cmd.script = <<CallOf("Lines")>> => (hist # <<>> /\ task.st = "done"))

\* Lines has returned more lines than its channel holds, with the process's error
C21_Witness ==
    /\ cmd.script = <<CallOf("Lines")>> /\ hist # <<>>
    /\ cmd.out = ManyLines /\ cmd.code = 3
    /\ Len(hist[1].lines) = LinesChanCap + 1 /\ hist[1].err.kind = "runError"
    /\ linesC.closed

\* C22: ExitCode(err) is defined for every error a call returns: 0 for nil, the exit
\* status of the process for the error of a failed exit, 1 for every other error
\* (failed start, build error, "already consumed", errors of the pipe and the
\* scanner), and not 0 for any error that is not nil.
C22_ExitCodeTotal ==
    \A i \in DOMAIN hist :
        LET e == hist[i].err
        IN /\ ExitCode(e) \in Int
           /\ e = NoErr => ExitCode(e) = 0
           /\ e.kind = "runError" => (ExitCode(e) = cmd.code /\ cmd.code # 0)
           /\ (e # NoErr /\ e.kind # "runError") => ExitCode(e) = 1
           /\ e # NoErr => ExitCode(e) # 0

\* Wait has returned the error of an exit with status 3, and a second Wait the
\* "already consumed" error
C22_Witness ==
    /\ Len(hist) = 2 /\ hist[1].kind = "Wait" /\ hist[2].kind = "Wait"
    /\ hist[1].err.kind = "runError" /\ ExitCode(hist[1].err) = 3
    /\ hist[2].err = ErrConsumed /\ ExitCode(hist[2].err) = 1

\* the error a Command cannot be started for: unclosed quotes in its parts, no
\* arguments, an attach type that is not declared, a binary that cannot be started
ConstructionError ==
    IF ~Split(cmd.parts).ok THEN ErrUnclosedQuotes
    ELSE IF Split(cmd.parts).args = <<>> THEN ErrNotInstantiated
    ELSE IF cmd.attach \notin AttachModes THEN ErrAttachType
    ELSE IF Split(cmd.parts).args[1] \notin Binaries THEN ErrNotFound
    ELSE NoErr

\* the methods called so far on the Output that return an error
ErrorCallsMade ==
    SelectSeq(SubSeq(cmd.client.script, 1, call.pos - 1), LAMBDA c : c.kind # "Map")

\* C23: a Command with unclosed quotes, no arguments, an unknown attach type or a
\* binary that fails to start gives an error-only Output: no process is started or
\* waited on, nothing is relayed, and Stream, StreamLines, Lines, JQ, Read, WriteTo
\* and Wait return that error and no output on every call, in any order, also
\* after Map.
C23_ErrorOnlyOutput ==
    (cmd.output # "none" /\ ConstructionError # NoErr)
        => /\ cmd.output = "errorOutput"
           /\ proc.state = "unstarted" /\ waiters = <<>> /\ wacRuns = 0 /\ once = "idle"
           /\ pipe = NewPipe /\ enq = <<>> /\ mapFuncs = <<>>
           /\ Len(hist) = Len(ErrorCallsMade)
           /\ \A i \in DOMAIN hist :
                 /\ hist[i].kind = ErrorCallsMade[i].kind
                 /\ hist[i].err = ConstructionError
                 /\ hist[i].bytes = <<>> /\ hist[i].lines = <<>> /\ hist[i].str = <<>>

\* every method has been called on the Output of a binary that does not exist,
\* Wait first
C23_Witness ==
    /\ cmd.parts = <<"nope">> /\ cmd.output = "errorOutput" /\ Len(hist) = 7
    /\ hist[1].kind = "Wait" /\ hist[7].kind = "Stream"
    /\ \A i \in DOMAIN hist : hist[i].err = ErrNotFound

\* the mode chosen by the calls on a Command: the last of StdOut and StdErr,
\* combined output when there is neither
RECURSIVE LastMode(_)
LastMode(calls) ==
    IF calls = <<>> THEN attachCombined
    ELSE IF calls[Len(calls)].op = "StdOut" THEN attachOnlyStdOut
    ELSE IF calls[Len(calls)].op = "StdErr" THEN attachOnlyStdErr
    ELSE LastMode(SubSeq(calls, 1, Len(calls) - 1))

\* s holds the elements of x and of y, each once, those of x in the order of x and
\* those of y in the order of y
RECURSIVE IsMerge(_, _, _)
IsMerge(s, x, y) ==
    IF s = <<>> THEN x = <<>> /\ y = <<>>
    ELSE \/ (x # <<>> /\ Head(s) = Head(x) /\ IsMerge(Tail(s), Tail(x), y))
         \/ (y # <<>> /\ Head(s) = Head(y) /\ IsMerge(Tail(s), x, Tail(y)))

\* what the copy goroutines have taken so far from each stream of the process
CopiedOut == Take(cmd.out, Len(cmd.out) - Len(proc.out) - Len(osPipe.out))
CopiedErr == Take(cmd.err, Len(cmd.err) - Len(proc.err) - Len(osPipe.err))

\* the errors built from the exit of the process: that of the waitAndClose
\* invocation that ran, and those returned by calls
ExitErrors ==
    {waiters[w].err : w \in {v \in DOMAIN waiters : waiters[v].err.kind = "runError"}}
    \cup {hist[i].err : i \in {k \in DOMAIN hist : hist[k].err.kind = "runError"}}

\* the streams that reach the pipe in each mode, and the mode a Command runs in
AttachRouting ==
    /\ cmd.attach = attachOnlyStdOut => enq = CopiedOut
    /\ cmd.attach = attachOnlyStdErr => enq = CopiedErr
    /\ cmd.attach = attachCombined => IsMerge(enq, CopiedOut, CopiedErr)
    /\ pipe.werr # NoErr => (CopiedOut = cmd.out /\ CopiedErr = cmd.err)
    /\ cmd.attach = LastMode(cmd.calls)

\* the mode decides which streams reach the pipe; in every mode the error of a
\* failing exit holds every byte the process wrote to stderr
C24_AllStderrInError ==
    (cmd.output = "commandOutput" /\ cmd.attach \in AttachModes)
        => /\ AttachRouting
           /\ \A e \in ExitErrors : e.stderr = cmd.err

\* C24: the attach mode decides which streams reach the pipe: with stdout only no
\* byte of stderr is enqueued, with stderr only no byte of stdout, with combined
\* output every byte of both exactly once, all of them before the close; in every
\* mode the error of a failing exit holds what the process wrote to stderr, with the
\* white space before and after it trimmed; the mode is that of the last of StdOut
\* and StdErr called on the Command, combined output if neither was called.
C24_AttachDecidesRouting ==
    (cmd.output = "commandOutput" /\ cmd.attach \in AttachModes)
        => /\ AttachRouting
           /\ \A e \in ExitErrors : e.stderr = TrimSpace(cmd.err) /\ e.code = cmd.code

\* StdErr, then StdOut, then Run: Stream has returned the bytes of stdout only, with
\* an error that holds the trimmed stderr
C24_Witness ==
    /\ cmd.output = "commandOutput" /\ cmd.parts = <<"sh">>
    /\ Len(cmd.calls) = 2 /\ cmd.calls[1].op = "StdErr" /\ cmd.calls[2].op = "StdOut"
    /\ hist # <<>> /\ hist[1].kind = "Stream" /\ hist[1].bytes = <<"a", NL>>
    /\ enq = <<"a", NL>> /\ hist[1].err.kind = "runError" /\ hist[1].err.stderr = <<"b">>

\* the readers passed to Input since the last ResetInput, in call order
RECURSIVE InputsSinceReset(_)
InputsSinceReset(calls) ==
    IF calls = <<>> THEN <<>>
    ELSE LET last == calls[Len(calls)]
             before == SubSeq(calls, 1, Len(calls) - 1)
         IN IF last.op = "ResetInput" THEN <<>>
            ELSE IF last.op = "Input" THEN Append(InputsSinceReset(before), last.r)
            ELSE InputsSinceReset(before)

\* the reader that yields what the given readers yield, one after the other; nil
\* for no reader
ConcatReaders(rs) ==
    IF rs = <<>> THEN NilReader
    ELSE NewReader(Flatten([k \in DOMAIN rs |-> rs[k].data]))

\* C26: after any sequence of Input and ResetInput calls the stdin of the Command,
\* which Run gives to the process, is the concatenation in call order of the readers
\* passed to Input since the last ResetInput, and no stdin if there is none; the
\* calls leave args, dir and environ as Cmd built them and the attach mode as StdOut
\* and StdErr chose it.
C26_InputConcatenates ==
    /\ cmd.stdin = ConcatReaders(InputsSinceReset(cmd.calls))
    /\ (cmd.output = "commandOutput" /\ cmd.args[1] = "cat")
          => /\ cmd.out = ConcatReaders(InputsSinceReset(cmd.calls)).data
             /\ (hist # <<>> /\ cmd.attach # attachOnlyStdErr) => hist[1].bytes = cmd.out
    /\ Split(cmd.parts).ok => cmd.args = Split(cmd.parts).args
    /\ cmd.dir = "" /\ cmd.environ = <<>>
    /\ cmd.attach \in AttachModes => cmd.attach = LastMode(cmd.calls)

\* Input, ResetInput, Input, then Run: cat has written what the last reader holds
C26_Witness ==
    /\ cmd.parts = <<"cat">> /\ Len(cmd.calls) = 3
    /\ cmd.calls[1].op = "Input" /\ cmd.calls[1].r = NewReader(<<"a">>)
    /\ cmd.calls[2].op = "ResetInput"
    /\ cmd.calls[3].op = "Input" /\ cmd.calls[3].r = NewReader(<<"a", NL>>)
    /\ hist # <<>> /\ hist[1].bytes = <<"a", NL>> /\ hist[1].err = NoErr

\* the call has consumed the output to its end: it returned nil, the end of the
\* stream or the error of the process
ConsumedToEnd(h) ==
    /\ h.kind # "Wait"
    /\ h.err.kind \in {"EOF", "runError"} \/ (h.err = NoErr /\ h.kind # "Read")

\* C25: bytes and lines are delivered in the order they were enqueued, none twice and
\* none missing: in every attach mode the pipe holds the bytes of each attached
\* stream in the order the process wrote them; what Stream, String and Read have
\* delivered so far is the beginning of what was enqueued, the lines StreamLines and
\* Lines have delivered are the first lines of it, and a call that returns at the end
\* of the output has delivered all of it, without maps and through a pass-through map.
C25_OrderPreserved ==
    (SingleCall /\ cmd.maps \in {<<>>, <<"pass">>} /\ NoLongLine(cmd.out))
        => /\ cmd.attach = attachOnlyStdOut => enq = CopiedOut
           /\ cmd.attach = attachOnlyStdErr => enq = CopiedErr
           /\ cmd.attach = attachCombined => IsMerge(enq, CopiedOut, CopiedErr)
           /\ (call.kind \in {"Stream", "String"} /\ cmd.maps = <<>>) => IsPrefix(sink.bytes, enq)
           /\ (call.kind = "Read" /\ cmd.maps = <<>>) => IsPrefix(HistBytes, enq)
           /\ call.kind \in {"Stream", "String", "Read"}
                 => IsPrefix(HistBytes, JoinLines(RefLines(enq)))
           /\ call.kind \in {"StreamLines", "Lines"}
                 => IsPrefix(sink.lines, Handled(RefLines(enq)))
           /\ \A i \in DOMAIN hist :
                 ConsumedToEnd(hist[i])
                    => /\ hist[i].kind \in {"Stream", "String", "Read"}
                            => HistBytes = ExpectedBytes
                       /\ hist[i].kind \in {"StreamLines", "Lines"}
                            => hist[i].lines = ExpectedLines

\* Lines on combined output has returned the line of stderr before that of stdout,
\* as they were enqueued
C25_Witness ==
    /\ cmd.attach = attachCombined /\ cmd.err = <<"b", NL>> /\ cmd.out = <<"a", NL>>
    /\ hist # <<>> /\ hist[1].kind = "Lines" /\ enq = <<"b", NL, "a", NL>>
    /\ hist[1].lines = << <<"b">>, <<"a">> >>

\* the lines of the output as at most one stage leaves them, whatever their length
FullLines == IF cmd.maps = <<>> THEN RefLines(enq) ELSE KeptLines(cmd.maps[1], RefLines(enq))

\* C27: no long line is truncated or dropped in silence: when Lines, StreamLines or
\* Stream with maps returns nil, every line has been delivered in full, also a line
\* longer than the scanner's buffer; otherwise the call returns an error.
C27_NoSilentTruncation ==
    (SingleCall /\ hist # <<>> /\ hist[1].err = NoErr /\ Len(cmd.maps) <= 1)
        => /\ hist[1].kind \in {"Lines", "StreamLines"} => hist[1].lines = FullLines
           /\ (hist[1].kind = "Stream" /\ cmd.maps # <<>>)
                 => hist[1].bytes = JoinLines(FullLines)

\* the call of the script has returned for good (a repeated Read: with an error)
CallDone == hist # <<>> /\ (hist[Len(hist)].kind = "Read" => hist[Len(hist)].err # NoErr)

\* a process killed by the cancellation: the pipe is closed only by waitAndClose,
\* after the exit and the copy of what the process had written, with the error of the
\* signalled exit; the call returns an error, and when it returns that of the exit it
\* has delivered all that was enqueued
C28_KilledState ==
    (cmd.ctx = "killed" /\ SingleCall)
        => /\ proc.state = "exited"
           /\ Len(closes) <= 1 /\ wacRuns <= 1
           /\ pipe.werr # NoErr
                 => /\ Len(closes) = 1 /\ closes[1].waited /\ closes[1].pending = 0
                    /\ pipe.werr.kind = "runError" /\ pipe.werr.code = Killed
           /\ \A i \in DOMAIN hist :
                 /\ (hist[i].kind # "Read" \/ (i = Len(hist) /\ CallDone)) => hist[i].err # NoErr
                 /\ (hist[i].err.kind = "runError" /\ hist[i].kind # "Wait")
                       => /\ hist[i].err.code = Killed
                          /\ hist[i].kind \in {"Stream", "String", "Read"}
                                => HistBytes = ExpectedBytes
                          /\ hist[i].kind \in {"StreamLines", "Lines"}
                                => hist[i].lines = ExpectedLines

\* C28: cancellation reaches the pipeline through the process only: when the context
\* is cancelled while the process runs, the process is killed, waitAndClose closes
\* the pipe with the error of that exit, and the consumption call returns, with an
\* error that is not nil, after it has delivered the output enqueued before the kill.
C28_CancelSurfacesAsExit ==
    /\ []C28_KilledState
    /\ (cmd.ctx = "killed" /\ SingleCall) ~> CallDone

\* Stream has returned what was enqueued before the kill, with the error of a
\* signalled exit, for a process that would have written more and exited with 0
C28_Witness ==
    /\ cmd.ctx = "killed" /\ cmd.out = <<"a", NL, "a">> /\ cmd.err = <<>>
    /\ hist # <<>> /\ hist[1].kind = "Stream" /\ hist[1].bytes = <<"a", NL>>
    /\ enq = <<"a", NL>> /\ hist[1].err.kind = "runError" /\ hist[1].err.code = Killed

\* C29: Wait does not consume output and prevents further reads: as the first call
\* on a handle it returns the error of the process's exit, nil for a clean exit, and
\* delivers nothing; every later Read, Stream, StreamLines, Lines and String on the
\* handle delivers no byte and no line.
C29_WaitPreventsReads ==
    (hist # <<>> /\ hist[1].kind = "Wait")
        => /\ hist[1].err = newError(cmdWait(cmd.code), cmd.err)
           /\ hist[1].bytes = <<>> /\ hist[1].lines = <<>>
           /\ call.id > 1 => (sink.bytes = <<>> /\ sink.lines = <<>>)
           /\ \A i \in DOMAIN hist :
                 hist[i].bytes = <<>> /\ hist[i].lines = <<>> /\ hist[i].str = <<>>

\* the process has exited and every waitAndClose invocation has returned
AllWaited ==
    /\ proc.state = "exited" /\ waiters # <<>>
    /\ \A w \in DOMAIN waiters : waiters[w].pc = "done"

\* every byte copied from the process is in the pipe or was read from it, whatever
\* the pipe already holds; the pipe is closed with nothing left to copy
C30_WritesAbsorbed ==
    /\ cmd.attach = attachOnlyStdOut => enq = CopiedOut
    /\ \A k \in DOMAIN closes : closes[k].pending = 0
    /\ pipe.werr # NoErr => enq = cmd.out
    /\ (hist # <<>> /\ hist[1].kind = "Wait") => pipe.buf = cmd.out

\* C30: the writes of the process into the pipe never wait for a consumer: with no
\* reader at all (Wait is the only call) and with a reader that has given up on an
\* error of a stage or of the destination, every byte is taken into the buffer, more
\* than it holds in memory too, and the process exits and Wait and the background
\* waitAndClose return in every execution.
C30_WritesNeverBlock ==
    /\ []C30_WritesAbsorbed
    /\ <>AllWaited

\* Wait has returned with all the output, more than the buffer holds in memory,
\* unread in the pipe
C30_Witness ==
    /\ cmd.script = <<CallOf("Wait")>> /\ hist # <<>> /\ AllWaited
    /\ cmd.out = LargeOut /\ pipe.buf = LargeOut /\ Len(pipe.buf) > maxBufferSize

\* the bytes the process has written so far to its standard output
WrittenOut == Take(cmd.out, Len(cmd.out) - Len(proc.out))
\* the number of complete lines in s
CountNL(s) == Cardinality({i \in 1..Len(s) : s[i] = NL})
\* what the process has written, and what the sink or callback has got, in the unit
\* of the call: lines for StreamLines and for Stream with maps, bytes otherwise
LiveWritten ==
    IF cmd.script = <<CallOf("Stream")>> /\ cmd.maps = <<>>
    THEN Len(WrittenOut) ELSE CountNL(WrittenOut)
LiveDelivered ==
    IF cmd.script = <<CallOf("StreamLines")>> THEN Len(sink.lines)
    ELSE IF cmd.maps = <<>> THEN Len(sink.bytes) ELSE CountNL(sink.bytes)

\* C31: output streams live: in Stream and StreamLines every byte (no maps) or every
\* complete line (maps, or StreamLines) that the process has written is eventually
\* delivered to the sink or callback, also in the executions where the process
\* writes nothing more and never exits: what was written never grows smaller, so the
\* sink catches up with it again and again.
C31_StreamsLive == []<>(cmd \in LiveCmds => LiveDelivered >= LiveWritten)

\* the first line has been delivered while the process is running and has not yet
\* written the second
C31_Witness ==
    /\ cmd \in LiveCmds /\ proc.state = "running" /\ proc.out = <<"a", NL>>
    /\ LiveWritten > 0 /\ LiveDelivered = LiveWritten
    /\ once # "done"

\* C32: lineMaps.Pipe, and so WriteTo with maps, returns the number of bytes read from
\* the source: when the Pipe of a Stream with maps has returned, its count is the
\* number of bytes it has taken out of the pipe.
C32_CountIsBytesRead ==
    (SingleCall /\ cmd.script[1].kind = "Stream" /\ cmd.maps # <<>> /\ task.st = "done")
        => task.written = Len(enq) - Len(pipe.buf)

\* the chain is the stages of the Map calls made so far, in the order of the calls;
\* no stage has run and nothing was read or waited for before the first consumption
C33_ChainState ==
    /\ mapFuncs = SubSeq(cmd.maps, 1, Len(mapFuncs))
    /\ call.id = 0 => /\ task.log = <<>> /\ task.toks = <<>>
                      /\ once = "idle" /\ waiters = <<>> /\ wacRuns = 0
                      /\ pipe.buf = enq /\ sink = NoSink /\ hist = <<>>

\* a step that changes the chain appends one stage to it and changes nothing else of
\* the handle
C33_MapStep ==
    mapFuncs' # mapFuncs
        => /\ \E f \in StageKinds : mapFuncs' = Append(mapFuncs, f)
           /\ mapFuncs' = SubSeq(cmd.maps, 1, Len(mapFuncs) + 1)
           /\ UNCHANGED <<cmd, proc, osPipe, stderrCopy, pipe, enq, closes, once, waiters,
                          wacRuns, call, sink, task, linesC, mapped, hist>>

\* C33: Map only registers a stage: it appends the stage at the end of the chain of the
\* same handle and neither starts the wait for the process, nor reads from the pipe,
\* nor invokes a stage; stages are invoked at aggregation time only, for each line in
\* the order of the Map calls.
C33_MapOnlyRegisters ==
    /\ []C33_ChainState
    /\ [][C33_MapStep]_vars
    /\ [](\A k \in DOMAIN task.log : \A i \in DOMAIN task.log[k] :
              /\ task.log[k][i].stage = i /\ i <= Len(cmd.maps)
              /\ call.id > 0 /\ mapFuncs = cmd.maps)

\* two stages are registered while the process has written output that waits unread
\* in the pipe, and no waiter exists
C33_Witness ==
    /\ Len(mapFuncs) = 2 /\ mapFuncs = cmd.maps /\ mapFuncs[1] # mapFuncs[2]
    /\ call.id = 0 /\ enq # <<>> /\ pipe.buf = enq /\ waiters = <<>>

\* the bytes the process writes to the stream, or streams, that aggregator.reader gets
AggregatorRouted ==
    (IF cmd.attach = attachOnlyStdErr THEN 0 ELSE Len(cmd.out))
    + (IF cmd.attach = attachOnlyStdOut THEN 0 ELSE Len(cmd.err))

\* C34: in the aggregator-based implementation, where waitFunc closes every pipe reader
\* and writer right after cmd.Wait, a Stream that returns a nil error has delivered no
\* fewer bytes than the process wrote, whatever the interleaving of the goroutine that
\* waits and the goroutine that copies.
C34_NilMeansAllDelivered ==
    (hist # <<>> /\ hist[1].err = NoErr) => Len(hist[1].bytes) >= AggregatorRouted

\* C35: in the aggregator-based implementation a Stream of the combined output returns
\* and has delivered everything, also when the process writes more than one buffer
\* holds: a pipe that nobody reads does not stop the process.
C35_CombinedStreamTerminates ==
    <>((cmd.attach = attachCombined /\ cmd.maps = <<>>)
          => (hist # <<>> /\ Len(hist[1].bytes) = AggregatorRouted))

\* C36: the scratch buffer of the chain never leaks between stages or lines: at every
\* stage invocation the sink handed to the stage is empty, a stage after the first
\* gets exactly the bytes the stage before it wrote for this line, and what is
\* delivered is what the chain yields for each line on a fresh buffer, also after a
\* stage that wrote bytes and returned 0.
C36_ScratchNeverLeaks ==
    /\ task.st = "run" => task.scratch = <<>>
    /\ \A k \in DOMAIN task.log : \A i \in DOMAIN task.log[k] :
          /\ task.log[k][i].scratch = <<>>
          /\ i = 1 => task.log[k][i].line = task.toks[k]
          /\ i > 1 => task.log[k][i].line =
                          RunStage(mapFuncs[i - 1], task.log[k][i - 1].line).wrote
    /\ (task.st = "done" /\ task.err = NoErr)
          => sink.bytes = Flatten([k \in DOMAIN task.toks |->
                                      lineOut(applyMaps(mapFuncs, task.toks[k]))])

\* a first stage that wrote the line "a" and returned 0, and a line processed after it
C36_Witness ==
    /\ task.st = "done" /\ mapFuncs[1] = "lie" /\ Len(task.toks) >= 2
    /\ task.toks[1] = <<"a">> /\ RunStage("lie", task.toks[1]).wrote # <<>>
    /\ Len(task.log) = Len(task.toks)

====
